---------------------------- MODULE Spec2Model ----------------------------
(***************************************************************************)
(* A model of d1-rest: a Cloudflare Worker that maps REST requests onto    *)
(* parameterized SQL (src/src/rest.ts) behind a rate limiter and a shared- *)
(* secret auth gate (src/src/index.ts).                                    *)
(*                                                                         *)
(* Strings are sequences of one-character strings, so that stripping,      *)
(* prefix tests and concatenation are computed and not assumed.  A         *)
(* JavaScript value is a record [t, s, n]: its type tag, its characters    *)
(* (a string) and its number (a number).                                   *)
(*                                                                         *)
(* Specifications:                                                         *)
(*   SpecSan   sanitizeIdentifier applied to bounded inputs                *)
(*   SpecAuth  authMiddleware applied to bounded secrets and headers       *)
(*   SpecRate  the rate limiting middleware over a moving clock            *)
(*   SpecRest  handleRest and the four CRUD handlers, one request a step   *)
(*   SpecQuery the /query handler, one request a step                      *)
(*   SpecHandlers  SpecRest and SpecQuery together                         *)
(*   Spec      one request at a time through fetch: secret fetch, cors,    *)
(*             rate limiter, router, auth gate, handler, database call     *)
(*   SpecFlights  several requests in flight through fetch at once         *)
(*   SpecClients  the rate limiter keyed by the address headers            *)
(*   SpecBurst the rate limiter under bursts across window boundaries      *)
(*   SpecGate  the rate limiter and the auth gate, 401 answers tallied     *)
(***************************************************************************)
EXTENDS Integers, Sequences, FiniteSets, TLC

VARIABLES
    sanInput,       \* SpecSan: the argument of sanitizeIdentifier
    sanResult,      \* SpecSan: what the call returned or threw
    sanAgain,       \* SpecSan: sanitizeIdentifier applied to its own result
    secret,         \* the value env.SECRET.get() resolves to
    authHeader,     \* SpecAuth: the Authorization header of the request
    authResp,       \* SpecAuth: what authMiddleware did with it
    authPrev,       \* SpecAuth: header and outcome of the request before
    earlyExit,      \* SpecAuth: whether the engine's !== stops at a mismatch
    requestCounts,  \* the Map from client address to {count, resetTime}
    now,            \* Date.now()
    rl,             \* SpecRate: the last request through the rate limiter
    admitted,       \* SpecRate: per client, the requests let through in its window
    pc,             \* where the request in hand is on its way through the worker
    request,        \* the request in hand
    response,       \* the response to it
    dbCalls,        \* the calls of the database collaborator made for it
    inFlight,       \* SpecFlights: the requests being served, by slot
    arrivals,       \* SpecFlights: how many requests have arrived
    admittedAt,     \* SpecBurst: the requests let through, by clock reading
    unauthorized    \* SpecGate: the 401 answers given in the client's window

sanVars == <<sanInput, sanResult, sanAgain>>
authVars == <<secret, authHeader, authResp, authPrev, earlyExit>>
rateVars == <<requestCounts, now, rl, admitted>>
restVars == <<pc, request, response, dbCalls>>
flightVars == <<inFlight, arrivals>>
tallyVars == <<admittedAt, unauthorized>>
vars == <<sanVars, authVars, rateVars, restVars, flightVars, tallyVars>>

\* An absent result (no call made yet).
None == [ok |-> FALSE, value |-> <<>>, message |-> "none"]

-----------------------------------------------------------------------------
(* JavaScript values *)

Str(s) == [t |-> "string", s |-> s, n |-> 0]
Num(k) == [t |-> "number", s |-> <<>>, n |-> k]
NaN == [t |-> "NaN", s |-> <<>>, n |-> 0]
Undefined == [t |-> "undefined", s |-> <<>>, n |-> 0]
Null == [t |-> "null", s |-> <<>>, n |-> 0]

\* !v of JavaScript: "", 0, NaN, null and undefined are falsy (values here
\* are strings, numbers, NaN, null, undefined).
Falsy(v) ==
    \/ v.t \in {"undefined", "null", "NaN"}
    \/ v.t = "string" /\ v.s = <<>>
    \/ v.t = "number" /\ v.n = 0

-----------------------------------------------------------------------------
(* Characters *)

LowerCase == {"a","b","c","d","e","f","g","h","i","j","k","l","m",
              "n","o","p","q","r","s","t","u","v","w","x","y","z"}
UpperCase == {"A","B","C","D","E","F","G","H","I","J","K","L","M",
              "N","O","P","Q","R","S","T","U","V","W","X","Y","Z"}
Digits == {"0","1","2","3","4","5","6","7","8","9"}

\* The complement of the class [^a-zA-Z0-9_] of rest.ts line 12.
IdentifierChar(ch) == ch \in LowerCase \cup UpperCase \cup Digits \cup {"_"}

\* The backtick character (a TLA+ string cannot hold one).
Backtick == "BACKTICK"

\* Strings over alphabet A of length at most n.
StringsUpTo(A, n) == UNION {[1..k -> A] : k \in 0..n}

-----------------------------------------------------------------------------
(* rest.ts: sanitizeIdentifier, sanitizeKeyword *)

Returned(s) == [ok |-> TRUE, value |-> s, message |-> ""]
Threw(msg) == [ok |-> FALSE, value |-> <<>>, message |-> msg]

\* identifier.replace(/[^a-zA-Z0-9_]/g, '')
StripNonIdentifier(s) == SelectSeq(s, IdentifierChar)

\* Mutant: the regular expression without its g flag removes only the first
\* disallowed character.
RECURSIVE StripFirstNonIdentifier(_)
StripFirstNonIdentifier(s) ==
    IF s = <<>> THEN <<>>
    ELSE IF IdentifierChar(Head(s))
         THEN <<Head(s)>> \o StripFirstNonIdentifier(Tail(s))
         ELSE Tail(s)

\* Mutant: the check of the first character (/^\d/) left out.
SanitizeIdentifierNoDigitCheck(identifier) ==
    IF Falsy(identifier) \/ identifier.t # "string"
    THEN Threw("Invalid identifier")
    ELSE LET sanitized == StripNonIdentifier(identifier.s)
         IN  IF Len(sanitized) = 0
             THEN Threw("Invalid identifier: must start with letter or underscore")
             ELSE Returned(sanitized)

\* Mutant: sanitizeIdentifier with the non-global replace.
SanitizeIdentifierFirstOnly(identifier) ==
    IF Falsy(identifier) \/ identifier.t # "string"
    THEN Threw("Invalid identifier")
    ELSE LET sanitized == StripFirstNonIdentifier(identifier.s)
         IN  IF Len(sanitized) = 0 \/ sanitized[1] \in Digits
             THEN Threw("Invalid identifier: must start with letter or underscore")
             ELSE Returned(sanitized)

SanitizeIdentifier(identifier) ==
    IF Falsy(identifier) \/ identifier.t # "string"
    THEN Threw("Invalid identifier")
    ELSE LET sanitized == StripNonIdentifier(identifier.s)
         IN  IF Len(sanitized) = 0 \/ sanitized[1] \in Digits
             THEN Threw("Invalid identifier: must start with letter or underscore")
             ELSE Returned(sanitized)

\* Backtick + sanitizeIdentifier(identifier) + Backtick
SanitizeKeyword(identifier) ==
    LET r == SanitizeIdentifier(identifier)
    IN  IF r.ok THEN Returned(<<Backtick>> \o r.value \o <<Backtick>>) ELSE r

-----------------------------------------------------------------------------
(* index.ts: authMiddleware *)

BearerPrefix == <<"B", "e", "a", "r", "e", "r", " ">>

\* s.startsWith(p)
StartsWith(s, p) == Len(s) >= Len(p) /\ SubSeq(s, 1, Len(p)) = p

\* s.substring(k): s without its first k characters.
Substring(s, k) == SubSeq(s, k + 1, Len(s))

\* c.json(body, status), after the c.header calls that set hdrs.
Json(status, hdrs, body) ==
    [next |-> FALSE, status |-> status, headers |-> hdrs, body |-> body]

\* A response whose body is plain text, not JSON.
Text(status, text) ==
    [next |-> FALSE, status |-> status, headers |-> {}, body |-> [text |-> text]]

\* return next(): the request goes on to the next handler.
CallNext == [next |-> TRUE, status |-> 0, headers |-> {}, body |-> <<>>]

WwwAuthenticate == {<<"WWW-Authenticate", "Bearer realm=\"API\"">>}

\* Mutant: the "Bearer " prefix is not stripped.
AuthTokenNoStrip(header) == header

\* The token compared against the secret (index.ts lines 106-108).
AuthToken(header) ==
    IF StartsWith(header, BearerPrefix) THEN Substring(header, 7) ELSE header

\* Mutant: a token of the wrong length gets an answer of its own.
AuthMiddlewareLengthLeak(header, sec) ==
    IF Falsy(header)
    THEN Json(401, WwwAuthenticate,
              [error |-> "Unauthorized: Missing authentication token"])
    ELSE LET token == AuthToken(header.s)
         IN  IF Len(token) # Len(sec)
             THEN Json(401, WwwAuthenticate,
                       [error |-> "Unauthorized: Invalid token length"])
             ELSE IF token # sec
                  THEN Json(401, WwwAuthenticate,
                            [error |-> "Unauthorized: Invalid authentication token"])
                  ELSE CallNext

AuthMiddleware(header, sec) ==
    IF Falsy(header)
    THEN Json(401, WwwAuthenticate,
              [error |-> "Unauthorized: Missing authentication token"])
    ELSE LET token == AuthToken(header.s)
         IN  IF Len(token) # Len(sec) \/ token # sec
             THEN Json(401, WwwAuthenticate,
                       [error |-> "Unauthorized: Invalid authentication token"])
             ELSE CallNext

\* The length of the longest common prefix of a and b.
RECURSIVE CommonPrefix(_, _)
CommonPrefix(a, b) ==
    IF a = <<>> \/ b = <<>> \/ Head(a) # Head(b) THEN 0
    ELSE 1 + CommonPrefix(Tail(a), Tail(b))

\* The character comparisons token !== secret takes for two strings of one
\* length.  The language fixes the result of !== and not its cost: an engine
\* that stops at the first differing character (memcmp) and one that reads
\* both strings to the end are both possible builds; earlyExit says which.
StrictNotEqualSteps(a, b, early) ==
    IF early /\ a # b THEN CommonPrefix(a, b) + 1 ELSE Len(a)

\* The character comparisons of line 111: none when the header is missing
\* or the lengths differ (|| does not evaluate its right operand).
AuthCompareSteps(header, sec, early) ==
    IF Falsy(header) THEN 0
    ELSE LET token == AuthToken(header.s)
         IN  IF Len(token) # Len(sec) THEN 0
             ELSE StrictNotEqualSteps(token, sec, early)

-----------------------------------------------------------------------------
(* index.ts: the rate limiting middleware *)

RATE_LIMIT_WINDOW == 60000
MAX_REQUESTS == 100

\* new Map()
EmptyMap == [k \in {} |-> 0]

\* m.set(k, v)
MapSet(m, k, v) == [x \in DOMAIN m \cup {k} |-> IF x = k THEN v ELSE m[x]]

Unknown == <<"u", "n", "k", "n", "o", "w", "n">>

\* Mutant: x-forwarded-for is looked at before cf-connecting-ip.
ClientIPForwardedFirst(cf, xff) ==
    IF ~Falsy(xff) THEN xff.s ELSE IF ~Falsy(cf) THEN cf.s ELSE Unknown

\* c.req.header('cf-connecting-ip') || c.req.header('x-forwarded-for')
\*     || 'unknown'
ClientIP(cf, xff) ==
    IF ~Falsy(cf) THEN cf.s ELSE IF ~Falsy(xff) THEN xff.s ELSE Unknown

TooManyRequests ==
    Json(429, {}, [error |-> "Too many requests. Please try again later."])

\* Mutant: the limit test is count > MAX_REQUESTS.
RateLimiterOffByOne(counts, clientIP, t) ==
    IF clientIP \in DOMAIN counts
    THEN LET clientData == counts[clientIP]
         IN  IF t > clientData.resetTime
             THEN [counts |-> MapSet(counts, clientIP,
                                     [count |-> 1, resetTime |-> t + RATE_LIMIT_WINDOW]),
                   resp |-> CallNext]
             ELSE IF clientData.count > MAX_REQUESTS
                  THEN [counts |-> counts, resp |-> TooManyRequests]
                  ELSE [counts |-> [counts EXCEPT ![clientIP].count = @ + 1],
                        resp |-> CallNext]
    ELSE [counts |-> MapSet(counts, clientIP,
                            [count |-> 1, resetTime |-> t + RATE_LIMIT_WINDOW]),
          resp |-> CallNext]

\* Mutant: the window test is now >= resetTime.
RateLimiterEarlyReset(counts, clientIP, t) ==
    IF clientIP \in DOMAIN counts
    THEN LET clientData == counts[clientIP]
         IN  IF t >= clientData.resetTime
             THEN [counts |-> MapSet(counts, clientIP,
                                     [count |-> 1, resetTime |-> t + RATE_LIMIT_WINDOW]),
                   resp |-> CallNext]
             ELSE IF clientData.count >= MAX_REQUESTS
                  THEN [counts |-> counts, resp |-> TooManyRequests]
                  ELSE [counts |-> [counts EXCEPT ![clientIP].count = @ + 1],
                        resp |-> CallNext]
    ELSE [counts |-> MapSet(counts, clientIP,
                            [count |-> 1, resetTime |-> t + RATE_LIMIT_WINDOW]),
          resp |-> CallNext]

\* Mutant: a request inside an open window is let through without count++.
RateLimiterKeepCount(counts, clientIP, t) ==
    IF clientIP \in DOMAIN counts
    THEN LET clientData == counts[clientIP]
         IN  IF t > clientData.resetTime
             THEN [counts |-> MapSet(counts, clientIP,
                                     [count |-> 1, resetTime |-> t + RATE_LIMIT_WINDOW]),
                   resp |-> CallNext]
             ELSE IF clientData.count >= MAX_REQUESTS
                  THEN [counts |-> counts, resp |-> TooManyRequests]
                  ELSE [counts |-> counts, resp |-> CallNext]
    ELSE [counts |-> MapSet(counts, clientIP,
                            [count |-> 1, resetTime |-> t + RATE_LIMIT_WINDOW]),
          resp |-> CallNext]

\* Mutant: a refused request starts the client's window again.
RateLimiterPostpone(counts, clientIP, t) ==
    IF clientIP \in DOMAIN counts
    THEN LET clientData == counts[clientIP]
         IN  IF t > clientData.resetTime
             THEN [counts |-> MapSet(counts, clientIP,
                                     [count |-> 1, resetTime |-> t + RATE_LIMIT_WINDOW]),
                   resp |-> CallNext]
             ELSE IF clientData.count >= MAX_REQUESTS
                  THEN [counts |-> [counts EXCEPT ![clientIP].resetTime =
                                                      t + RATE_LIMIT_WINDOW],
                        resp |-> TooManyRequests]
                  ELSE [counts |-> [counts EXCEPT ![clientIP].count = @ + 1],
                        resp |-> CallNext]
    ELSE [counts |-> MapSet(counts, clientIP,
                            [count |-> 1, resetTime |-> t + RATE_LIMIT_WINDOW]),
          resp |-> CallNext]

\* Mutant: a request that starts a new window clears the rest of the map.
RateLimiterSweep(counts, clientIP, t) ==
    IF clientIP \in DOMAIN counts
    THEN LET clientData == counts[clientIP]
         IN  IF t > clientData.resetTime
             THEN [counts |-> MapSet(EmptyMap, clientIP,
                                     [count |-> 1, resetTime |-> t + RATE_LIMIT_WINDOW]),
                   resp |-> CallNext]
             ELSE IF clientData.count >= MAX_REQUESTS
                  THEN [counts |-> counts, resp |-> TooManyRequests]
                  ELSE [counts |-> [counts EXCEPT ![clientIP].count = @ + 1],
                        resp |-> CallNext]
    ELSE [counts |-> MapSet(counts, clientIP,
                            [count |-> 1, resetTime |-> t + RATE_LIMIT_WINDOW]),
          resp |-> CallNext]

\* Mutant: the request that opens a window is not counted.
RateLimiterFreeFirst(counts, clientIP, t) ==
    IF clientIP \in DOMAIN counts
    THEN LET clientData == counts[clientIP]
         IN  IF t > clientData.resetTime
             THEN [counts |-> MapSet(counts, clientIP,
                                     [count |-> 0, resetTime |-> t + RATE_LIMIT_WINDOW]),
                   resp |-> CallNext]
             ELSE IF clientData.count >= MAX_REQUESTS
                  THEN [counts |-> counts, resp |-> TooManyRequests]
                  ELSE [counts |-> [counts EXCEPT ![clientIP].count = @ + 1],
                        resp |-> CallNext]
    ELSE [counts |-> MapSet(counts, clientIP,
                            [count |-> 0, resetTime |-> t + RATE_LIMIT_WINDOW]),
          resp |-> CallNext]

\* The middleware of lines 73-91 for a request of clientIP at time t: the
\* map after it, and its answer (429 or next()).
RateLimiter(counts, clientIP, t) ==
    IF clientIP \in DOMAIN counts
    THEN LET clientData == counts[clientIP]
         IN  IF t > clientData.resetTime
             THEN [counts |-> MapSet(counts, clientIP,
                                     [count |-> 1, resetTime |-> t + RATE_LIMIT_WINDOW]),
                   resp |-> CallNext]
             ELSE IF clientData.count >= MAX_REQUESTS
                  THEN [counts |-> counts, resp |-> TooManyRequests]
                  ELSE [counts |-> [counts EXCEPT ![clientIP].count = @ + 1],
                        resp |-> CallNext]
    ELSE [counts |-> MapSet(counts, clientIP,
                            [count |-> 1, resetTime |-> t + RATE_LIMIT_WINDOW]),
          resp |-> CallNext]

-----------------------------------------------------------------------------
(* rest.ts: the SQL text and the query string *)

\* The pieces of SQL text the handlers write out.
SqlSelectFrom == <<"S", "E", "L", "E", "C", "T", " ", "*", " ", "F", "R", "O", "M", " ">>
SqlWhere == <<" ", "W", "H", "E", "R", "E", " ">>
SqlAnd == <<" ", "A", "N", "D", " ">>
SqlEqualsParam == <<" ", "=", " ", "?">>
SqlIdEqualsParam == <<"i", "d", " ", "=", " ", "?">>
SqlOrderBy == <<" ", "O", "R", "D", "E", "R", " ", "B", "Y", " ">>
SqlAsc == <<"A", "S", "C">>
SqlDesc == <<"D", "E", "S", "C">>
SqlLimit == <<" ", "L", "I", "M", "I", "T", " ", "?">>
SqlOffset == <<" ", "O", "F", "F", "S", "E", "T", " ", "?">>
SqlInsertInto == <<"I", "N", "S", "E", "R", "T", " ", "I", "N", "T", "O", " ">>
SqlValues == <<")", " ", "V", "A", "L", "U", "E", "S", " ", "(">>
SqlUpdate == <<"U", "P", "D", "A", "T", "E", " ">>
SqlSet == <<" ", "S", "E", "T", " ">>
SqlWhereId == <<" ", "W", "H", "E", "R", "E", " ", "i", "d", " ", "=", " ", "?">>
SqlDeleteFrom == <<"D", "E", "L", "E", "T", "E", " ", "F", "R", "O", "M", " ">>
SqlCommaSpace == <<",", " ">>

\* The query-string keys that are directives, not filters (line 46).
KeySortBy == <<"s", "o", "r", "t", "_", "b", "y">>
KeyOrder == <<"o", "r", "d", "e", "r">>
KeyLimit == <<"l", "i", "m", "i", "t">>
KeyOffset == <<"o", "f", "f", "s", "e", "t">>
ReservedKeys == {KeySortBy, KeyOrder, KeyLimit, KeyOffset}

KeyId == <<"i", "d">>

\* parts.join(sep)
RECURSIVE Join(_, _)
Join(parts, sep) ==
    IF parts = <<>> THEN <<>>
    ELSE IF Len(parts) = 1 THEN parts[1]
    ELSE parts[1] \o sep \o Join(Tail(parts), sep)

LowerLetters == <<"a", "b", "c", "d", "e", "f", "g", "h", "i", "j", "k", "l", "m", "n", "o", "p", "q", "r", "s", "t", "u", "v", "w", "x", "y", "z">>
UpperLetters == <<"A", "B", "C", "D", "E", "F", "G", "H", "I", "J", "K", "L", "M", "N", "O", "P", "Q", "R", "S", "T", "U", "V", "W", "X", "Y", "Z">>

\* The string as it is, its case kept.
SameCase(s) == s

\* s.toUpperCase()
ToUpperCase(s) ==
    [i \in 1..Len(s) |->
        IF s[i] \in LowerCase
        THEN UpperLetters[CHOOSE j \in 1..26 : LowerLetters[j] = s[i]]
        ELSE s[i]]

\* The lower-case letter of each upper-case one.
LowerOf ==
    [ch \in UpperCase |-> LowerLetters[CHOOSE j \in 1..26 : UpperLetters[j] = ch]]

\* s.toLowerCase()
ToLowerCase(s) ==
    [i \in 1..Len(s) |-> IF s[i] \in UpperCase THEN LowerOf[s[i]] ELSE s[i]]

\* searchParams.get(key): the value of the first entry with that key, or null.
\* An entry is <<key, value>>.
SearchGet(searchParams, key) ==
    IF \E i \in 1..Len(searchParams) : searchParams[i][1] = key
    THEN LET first == CHOOSE i \in 1..Len(searchParams) :
                          /\ searchParams[i][1] = key
                          /\ \A j \in 1..(i - 1) : searchParams[j][1] # key
         IN  Str(searchParams[first][2])
    ELSE Null

DecimalDigits == <<"0", "1", "2", "3", "4", "5", "6", "7", "8", "9">>
DigitValue(ch) == (CHOOSE j \in 1..10 : DecimalDigits[j] = ch) - 1

\* The number written by the digits that start s, after the digits before
\* them gave acc.
RECURSIVE LeadingDigits(_, _)
LeadingDigits(s, acc) ==
    IF s = <<>> \/ Head(s) \notin Digits THEN acc
    ELSE LeadingDigits(Tail(s), 10 * acc + DigitValue(Head(s)))

RECURSIVE TrimStart(_)
TrimStart(s) ==
    IF s # <<>> /\ Head(s) = " " THEN TrimStart(Tail(s)) ELSE s

\* parseInt(s) without a radix: blanks, a sign, then decimal digits up to
\* the first other character; NaN when no digit is there.  (A 0x prefix
\* would be read as hexadecimal; no string here has one.)
ParseInt(s) ==
    LET t == TrimStart(s)
        negative == t # <<>> /\ Head(t) = "-"
        u == IF t # <<>> /\ Head(t) \in {"-", "+"} THEN Tail(t) ELSE t
    IN  IF u = <<>> \/ Head(u) \notin Digits THEN NaN
        ELSE IF negative THEN Num(0 - LeadingDigits(u, 0))
        ELSE Num(LeadingDigits(u, 0))

-----------------------------------------------------------------------------
(* rest.ts: what a handler has when it reaches the database *)

\* A handler either answers without the database, or hands it a statement
\* with its bound parameters.
Answer(resp) == [run |-> FALSE, resp |-> resp, query |-> <<>>, params |-> <<>>]
Statement(query, params) ==
    [run |-> TRUE, resp |-> CallNext, query |-> query, params |-> params]

\* What the database collaborator does with a statement: it runs it and
\* reports the affected rows, or it throws.
DbRan(changes) == [ok |-> TRUE, changes |-> changes, message |-> ""]
DbThrewWith(message) == [ok |-> FALSE, changes |-> 0, message |-> message]
DbThrew == DbThrewWith("D1_ERROR: statement failed")
DbFailures == {DbThrew, DbThrewWith("D1_ERROR: no such table: users")}
DbOutcomes == {DbRan(0), DbRan(1)} \cup DbFailures

\* The catch blocks: c.json({error, details: error.message}, 400).
Caught(error, message) == Json(400, {}, [error |-> error, details |-> message])

-----------------------------------------------------------------------------
(* rest.ts: handleGet *)

NoConditions == [ok |-> TRUE, conds |-> <<>>, params |-> <<>>, message |-> ""]

\* The loop of lines 45-51 over the query-string entries: the conditions and
\* their parameters, or the message of the first sanitizeIdentifier that
\* throws.
RECURSIVE FilterConditions(_)
FilterConditions(entries) ==
    IF entries = <<>> THEN NoConditions
    ELSE LET key == Head(entries)[1]
             value == Head(entries)[2]
         IN  IF key \in ReservedKeys THEN FilterConditions(Tail(entries))
             ELSE LET sanitizedKey == SanitizeIdentifier(Str(key))
                  IN  IF ~sanitizedKey.ok
                      THEN [NoConditions EXCEPT !.ok = FALSE,
                                                !.message = sanitizedKey.message]
                      ELSE LET rest == FilterConditions(Tail(entries))
                           IN  IF ~rest.ok THEN rest
                               ELSE [rest EXCEPT
                                        !.conds = <<sanitizedKey.value \o SqlEqualsParam>> \o @,
                                        !.params = <<Str(value)>> \o @]

\* handleGet up to the database call (lines 31-80).
GetPrepare(tableName, id, searchParams) ==
    LET table == SanitizeKeyword(Str(tableName))
        failed(message) == Answer(Caught("Failed to fetch records", message))
    IN  IF ~table.ok THEN failed(table.message)
        ELSE
        LET filters == FilterConditions(searchParams)
        IN  IF ~filters.ok THEN failed(filters.message)
            ELSE
            LET conditions == (IF ~Falsy(id) THEN <<SqlIdEqualsParam>> ELSE <<>>)
                                  \o filters.conds
                params1 == (IF ~Falsy(id) THEN <<id>> ELSE <<>>) \o filters.params
                query1 == SqlSelectFrom \o table.value
                              \o (IF Len(conditions) > 0
                                  THEN SqlWhere \o Join(conditions, SqlAnd)
                                  ELSE <<>>)
                sortBy == SearchGet(searchParams, KeySortBy)
                sortColumn == IF ~Falsy(sortBy) THEN SanitizeIdentifier(sortBy)
                              ELSE Returned(<<>>)
            IN  IF ~sortColumn.ok THEN failed(sortColumn.message)
                ELSE
                LET orderValue == SearchGet(searchParams, KeyOrder)
                    order == IF orderValue.t = "string"
                                    /\ ToUpperCase(orderValue.s) = SqlDesc
                             THEN SqlDesc ELSE SqlAsc
                    query2 == query1
                                  \o (IF ~Falsy(sortBy)
                                      THEN SqlOrderBy \o sortColumn.value \o <<" ">> \o order
                                      ELSE <<>>)
                    limit == SearchGet(searchParams, KeyLimit)
                    offset == SearchGet(searchParams, KeyOffset)
                IN  IF Falsy(limit) THEN Statement(query2, params1)
                    ELSE IF Falsy(offset)
                    THEN Statement(query2 \o SqlLimit,
                                   params1 \o <<ParseInt(limit.s)>>)
                    ELSE Statement(query2 \o SqlLimit \o SqlOffset,
                                   params1 \o <<ParseInt(limit.s), ParseInt(offset.s)>>)

\* handleGet after the database call (lines 82-89).
GetFinish(outcome) ==
    IF outcome.ok
    THEN Json(200, {}, [success |-> TRUE, results |-> "rows"])
    ELSE Caught("Failed to fetch records", outcome.message)

-----------------------------------------------------------------------------
(* rest.ts: handlePost, handleUpdate, handleDelete, handleRest *)

\* What c.req.json() gives: a parsed JSON value, or a rejection when the
\* body is not JSON.  An object is its keys in Object.keys order with their
\* values (no key here is an array index, so that is the order they were
\* written in).
JsonObject(keys, vals) == [kind |-> "object", keys |-> keys, vals |-> vals]
JsonOther(kind) == [kind |-> kind, keys |-> <<>>, vals |-> <<>>]
NoBody == JsonOther("unparsable")
JsonParseMessage == "Unexpected end of JSON input"

\* !data || typeof data !== 'object' || Array.isArray(data)
NotAnObject(data) == data.kind # "object"

\* data[col]
Lookup(data, col) ==
    IF \E i \in 1..Len(data.keys) : data.keys[i] = col
    THEN data.vals[CHOOSE i \in 1..Len(data.keys) : data.keys[i] = col]
    ELSE Undefined

\* 'id' looked for under the first key only.
HasIdKeyFirstOnly(data) == Len(data.keys) > 0 /\ data.keys[1] = KeyId

\* 'id' in data
HasIdKey(data) == \E i \in 1..Len(data.keys) : data.keys[i] = KeyId

\* The keys as they come from the body, not sanitized.
RawKeys(keys) == Returned(keys)

\* Object.keys(data).map(sanitizeIdentifier): the columns, or the message
\* of the first call that throws.
RECURSIVE SanitizeAll(_)
SanitizeAll(keys) ==
    IF keys = <<>> THEN Returned(<<>>)
    ELSE LET first == SanitizeIdentifier(Str(Head(keys)))
         IN  IF ~first.ok THEN first
             ELSE LET rest == SanitizeAll(Tail(keys))
                  IN  IF ~rest.ok THEN rest
                      ELSE Returned(<<first.value>> \o rest.value)

\* handlePost up to the database call (lines 96-114).
PostPrepare(tableName, data) ==
    LET table == SanitizeKeyword(Str(tableName))
        failed(message) == Answer(Caught("Failed to create record", message))
    IN  IF ~table.ok THEN failed(table.message)
        ELSE IF data = NoBody THEN failed(JsonParseMessage)
        ELSE IF NotAnObject(data)
        THEN Answer(Json(400, {}, [error |-> "Invalid data format: Expected object"]))
        ELSE IF Len(data.keys) = 0
        THEN Answer(Json(400, {}, [error |-> "No data provided"]))
        ELSE
        LET columns == SanitizeAll(data.keys)
        IN  IF ~columns.ok THEN failed(columns.message)
            ELSE
            LET placeholders == Join([i \in 1..Len(columns.value) |-> <<"?">>],
                                     SqlCommaSpace)
                query == SqlInsertInto \o table.value \o <<" ", "(">>
                             \o Join(columns.value, SqlCommaSpace)
                             \o SqlValues \o placeholders \o <<")">>
                params == [i \in 1..Len(columns.value) |->
                              Lookup(data, columns.value[i])]
            IN  Statement(query, params)

\* handlePost after the database call (lines 116-127).
PostFinish(data, outcome) ==
    IF outcome.ok
    THEN Json(201, {}, [message |-> "Resource created successfully",
                        data |-> data,
                        meta |-> [success |-> TRUE]])
    ELSE Caught("Failed to create record", outcome.message)

\* handleUpdate up to the database call (lines 134-160).
UpdatePrepare(tableName, id, data) ==
    LET table == SanitizeKeyword(Str(tableName))
        failed(message) == Answer(Caught("Failed to update record", message))
    IN  IF ~table.ok THEN failed(table.message)
        ELSE IF data = NoBody THEN failed(JsonParseMessage)
        ELSE IF NotAnObject(data)
        THEN Answer(Json(400, {}, [error |-> "Invalid data format: Expected object"]))
        ELSE IF Len(data.keys) = 0
        THEN Answer(Json(400, {}, [error |-> "No data provided for update"]))
        ELSE IF HasIdKey(data)
        THEN Answer(Json(400, {}, [error |-> "Cannot update ID field"]))
        ELSE
        LET columns == SanitizeAll(data.keys)
        IN  IF ~columns.ok THEN failed(columns.message)
            ELSE
            LET setColumns == Join([i \in 1..Len(columns.value) |->
                                       columns.value[i] \o SqlEqualsParam],
                                   SqlCommaSpace)
                query == SqlUpdate \o table.value \o SqlSet \o setColumns
                             \o SqlWhereId
            IN  Statement(query, data.vals \o <<id>>)

\* handleUpdate after the database call (lines 162-173).
UpdateFinish(data, outcome) ==
    IF outcome.ok
    THEN Json(200, {}, [message |-> "Resource updated successfully",
                        data |-> data,
                        meta |-> [success |-> TRUE, changes |-> outcome.changes]])
    ELSE Caught("Failed to update record", outcome.message)

\* handleDelete up to the database call (lines 180-186).
DeletePrepare(tableName, id) ==
    LET table == SanitizeKeyword(Str(tableName))
    IN  IF ~table.ok
        THEN Answer(Caught("Failed to delete record", table.message))
        ELSE Statement(SqlDeleteFrom \o table.value \o SqlWhereId, <<id>>)

\* handleDelete answering like handleUpdate, whatever the affected rows.
DeleteFinishAlwaysOk(outcome) ==
    IF ~outcome.ok THEN Caught("Failed to delete record", outcome.message)
    ELSE Json(200, {}, [message |-> "Resource deleted successfully",
                        meta |-> [changes |-> outcome.changes]])

\* handleDelete after the database call (lines 188-202).
DeleteFinish(outcome) ==
    IF ~outcome.ok THEN Caught("Failed to delete record", outcome.message)
    ELSE IF outcome.changes = 0
    THEN Json(404, {}, [error |-> "Record not found"])
    ELSE Json(200, {}, [message |-> "Resource deleted successfully",
                        meta |-> [changes |-> outcome.changes]])

\* url.pathname.split('/').filter(Boolean) is the list of the non-empty
\* segments; a request carries its path as that list.  pathParts[k] past
\* the end is undefined.
PathPart(pathParts, k) ==
    IF k <= Len(pathParts) THEN Str(pathParts[k]) ELSE Undefined

UpdateMethods == {"PUT", "PATCH"}

\* handleRest with PUT falling through to the default case and DELETE not
\* asking for an id.
RestPrepareLoose(method, pathParts, searchParams, data) ==
    IF Len(pathParts) < 2
    THEN Answer(Json(400, {},
             [error |-> "Invalid path. Expected format: /rest/{tableName}/{id?}"]))
    ELSE
    LET tableName == pathParts[2]
        id == PathPart(pathParts, 3)
    IN  IF method = "GET" THEN GetPrepare(tableName, id, searchParams)
        ELSE IF method = "POST" THEN PostPrepare(tableName, data)
        ELSE IF method = "PATCH"
        THEN IF Falsy(id)
             THEN Answer(Json(400, {}, [error |-> "ID is required for updates"]))
             ELSE UpdatePrepare(tableName, id, data)
        ELSE IF method = "DELETE" THEN DeletePrepare(tableName, id)
        ELSE Answer(Json(405, {}, [error |-> "Method not allowed"]))

\* handleRest up to the database call (lines 208-234): the dispatch and the
\* chosen handler's first half.
RestPrepare(method, pathParts, searchParams, data) ==
    IF Len(pathParts) < 2
    THEN Answer(Json(400, {},
             [error |-> "Invalid path. Expected format: /rest/{tableName}/{id?}"]))
    ELSE
    LET tableName == pathParts[2]
        id == PathPart(pathParts, 3)
    IN  IF method = "GET" THEN GetPrepare(tableName, id, searchParams)
        ELSE IF method = "POST" THEN PostPrepare(tableName, data)
        ELSE IF method \in UpdateMethods
        THEN IF Falsy(id)
             THEN Answer(Json(400, {}, [error |-> "ID is required for updates"]))
             ELSE UpdatePrepare(tableName, id, data)
        ELSE IF method = "DELETE"
        THEN IF Falsy(id)
             THEN Answer(Json(400, {}, [error |-> "ID is required for deletion"]))
             ELSE DeletePrepare(tableName, id)
        ELSE Answer(Json(405, {}, [error |-> "Method not allowed"]))

\* The second half of the handler that made the database call.
RestFinish(method, data, outcome) ==
    IF method = "GET" THEN GetFinish(outcome)
    ELSE IF method = "POST" THEN PostFinish(data, outcome)
    ELSE IF method \in UpdateMethods THEN UpdateFinish(data, outcome)
    ELSE DeleteFinish(outcome)

\* A call of the database collaborator: prepare(query).bind(...params) and
\* then all() or run(), with what it did.
DbCall(prepared, outcome) ==
    [query |-> prepared.query, params |-> prepared.params, outcome |-> outcome]

\* handleRest asking the database whether the table is there before it
\* looks at the request.
HandleRestProbeFirst(method, pathParts, searchParams, data, outcome) ==
    LET prepared == RestPrepare(method, pathParts, searchParams, data)
        probe == DbCall(Statement(SqlSelectFrom, <<>>), outcome)
    IN  IF prepared.run
        THEN [resp |-> RestFinish(method, data, outcome),
              db |-> <<probe, DbCall(prepared, outcome)>>]
        ELSE [resp |-> prepared.resp, db |-> <<probe>>]

\* handleRest as a whole, given what the database does if it is called:
\* the response and the database calls made.
HandleRest(method, pathParts, searchParams, data, outcome) ==
    LET prepared == RestPrepare(method, pathParts, searchParams, data)
    IN  IF prepared.run
        THEN [resp |-> RestFinish(method, data, outcome),
              db |-> <<DbCall(prepared, outcome)>>]
        ELSE [resp |-> prepared.resp, db |-> <<>>]

-----------------------------------------------------------------------------
(* index.ts: the /query handler *)

\* A JSON array value with its items.
Arr(items) == [t |-> "array", items |-> items]

Whitespace == {" ", "\t", "\n", "\r"}

RECURSIVE TrimEnd(_)
TrimEnd(s) ==
    IF s # <<>> /\ s[Len(s)] \in Whitespace
    THEN TrimEnd(SubSeq(s, 1, Len(s) - 1)) ELSE s

RECURSIVE TrimLeft(_)
TrimLeft(s) ==
    IF s # <<>> /\ Head(s) \in Whitespace THEN TrimLeft(Tail(s)) ELSE s

\* s.trim()
Trim(s) == TrimEnd(TrimLeft(s))

\* s.includes(ch)
Includes(s, ch) == \E i \in 1..Len(s) : s[i] = ch

\* s.split(ch)
RECURSIVE Split(_, _)
Split(s, ch) ==
    IF ~Includes(s, ch) THEN <<s>>
    ELSE LET i == CHOOSE k \in 1..Len(s) :
                      s[k] = ch /\ \A j \in 1..(k - 1) : s[j] # ch
         IN  <<SubSeq(s, 1, i - 1)>> \o Split(SubSeq(s, i + 1, Len(s)), ch)

\* Every segment counts, blank or not.
AnySegment(s) == TRUE

NotBlank(s) == Trim(s) # <<>>

\* trimmedQuery.includes(';') && trimmedQuery.split(';').filter(s => s.trim()).length > 1
MultipleStatements(query) ==
    LET trimmedQuery == ToLowerCase(Trim(query))
    IN  /\ Includes(trimmedQuery, ";")
        /\ Len(SelectSeq(Split(trimmedQuery, ";"), NotBlank)) > 1

\* \b between s[i-1] and s[i]: a word character on exactly one side.
WordBoundary(s, i) ==
    (i > 1 /\ IdentifierChar(s[i - 1])) # (i <= Len(s) /\ IdentifierChar(s[i]))

\* The word w stands at position i of s, whatever its case.
WordAt(s, i, w) ==
    /\ i + Len(w) - 1 <= Len(s)
    /\ ToLowerCase(SubSeq(s, i, i + Len(w) - 1)) = w

\* /\bw\b/i.test(s)
TestWord(s, w) ==
    \E i \in 1..Len(s) :
        WordBoundary(s, i) /\ WordAt(s, i, w) /\ WordBoundary(s, i + Len(w))

\* /\bfirst\s+second\b/i.test(s)
TestWords(s, first, second) ==
    \E i \in 1..Len(s) :
        /\ WordBoundary(s, i)
        /\ WordAt(s, i, first)
        /\ \E j \in (i + Len(first) + 1)..Len(s) :
            /\ \A k \in (i + Len(first))..(j - 1) : s[k] \in Whitespace
            /\ WordAt(s, j, second)
            /\ WordBoundary(s, j + Len(second))

WordDrop == <<"d", "r", "o", "p">>
WordTable == <<"t", "a", "b", "l", "e">>
WordDatabase == <<"d", "a", "t", "a", "b", "a", "s", "e">>
WordTruncate == <<"t", "r", "u", "n", "c", "a", "t", "e">>
WordAlter == <<"a", "l", "t", "e", "r">>

\* dangerousPatterns.some(pattern => pattern.test(query))
Dangerous(query) ==
    \/ TestWords(query, WordDrop, WordTable)
    \/ TestWords(query, WordDrop, WordDatabase)
    \/ TestWord(query, WordTruncate)
    \/ TestWords(query, WordAlter, WordTable)

KeyQuery == <<"q", "u", "e", "r", "y">>
KeyParams == <<"p", "a", "r", "a", "m", "s">>

InternalError == Json(500, {}, [error |-> "Internal server error processing query"])

\* The /query handler up to the database call (lines 124-158).
QueryPrepare(body) ==
    IF body = NoBody \/ body.kind = "null" THEN Answer(InternalError)
    ELSE
    LET query == Lookup(body, KeyQuery)
        params == Lookup(body, KeyParams)
    IN  IF Falsy(query) \/ query.t # "string"
        THEN Answer(Json(400, {}, [error |-> "Valid query string is required"]))
        ELSE IF MultipleStatements(query.s)
        THEN Answer(Json(400, {}, [error |-> "Multiple SQL statements are not allowed"]))
        ELSE IF Dangerous(query.s)
        THEN Answer(Json(403, {},
                 [error |-> "Query contains potentially dangerous operations"]))
        ELSE IF params.t # "undefined" /\ params.t # "array"
        THEN Answer(Json(400, {}, [error |-> "Parameters must be an array"]))
        ELSE Statement(query.s, IF params.t = "array" THEN params.items ELSE <<>>)

\* The catch of /query answering like the catch of a CRUD handler.
QueryFinishWithDetails(outcome) ==
    IF outcome.ok
    THEN Json(200, {}, [success |-> TRUE, results |-> "rows"])
    ELSE Json(500, {}, [error |-> "Internal server error processing query",
                        details |-> outcome.message])

\* The /query handler after the database call (lines 160-165).
QueryFinish(outcome) ==
    IF outcome.ok
    THEN Json(200, {}, [success |-> TRUE, results |-> "rows"])
    ELSE InternalError

-----------------------------------------------------------------------------
(* index.ts: fetch, its middleware and its routes *)

\* cors() answers a preflight itself: an OPTIONS request gets 204 and the
\* middleware after it does not run.
Preflight == Json(204, {}, <<>>)

\* What the router answers when no route matches.
NotFound == Text(404, "404 Not Found")

\* What the client gets when fetch throws (env.SECRET.get() is awaited
\* outside any try).
Uncaught == Text(500, "Uncaught exception")

RestPrefix == <<"r", "e", "s", "t">>
QueryPath == <<"q", "u", "e", "r", "y">>

\* /query answered by its handler without the auth gate before it.
MatchRouteQueryOpen(method, pathParts) ==
    IF pathParts # <<>> /\ pathParts[1] = RestPrefix
    THEN [auth |-> TRUE, handler |-> "rest"]
    ELSE IF method = "POST" /\ pathParts = <<QueryPath>>
    THEN [auth |-> FALSE, handler |-> "query"]
    ELSE [auth |-> FALSE, handler |-> "none"]

\* The routes of lines 120 and 123: app.all('/rest/*', authMiddleware,
\* handleRest) and app.post('/query', authMiddleware, ...).
MatchRoute(method, pathParts) ==
    IF pathParts # <<>> /\ pathParts[1] = RestPrefix
    THEN [auth |-> TRUE, handler |-> "rest"]
    ELSE IF method = "POST" /\ pathParts = <<QueryPath>>
    THEN [auth |-> TRUE, handler |-> "query"]
    ELSE [auth |-> FALSE, handler |-> "none"]

\* The matched handler up to its database call.
Prepare(req) ==
    IF MatchRoute(req.method, req.pathParts).handler = "query"
    THEN QueryPrepare(req.data)
    ELSE RestPrepare(req.method, req.pathParts, req.searchParams, req.data)

\* The matched handler after its database call.
Finish(req, outcome) ==
    IF MatchRoute(req.method, req.pathParts).handler = "query"
    THEN QueryFinish(outcome)
    ELSE RestFinish(req.method, req.data, outcome)

-----------------------------------------------------------------------------
(* The variables of a specification that does not use them *)

NoAuth == [header |-> Undefined, resp |-> CallNext, steps |-> 0, seen |-> FALSE]

SanIdle ==
    /\ sanInput = Undefined
    /\ sanResult = None
    /\ sanAgain = None

AuthIdle ==
    /\ secret = <<"x">>
    /\ earlyExit = FALSE
    /\ authHeader = Undefined
    /\ authResp = NoAuth
    /\ authPrev = NoAuth

NoEntry == [count |-> 0, resetTime |-> 0]

NoRequest ==
    [clientIP |-> <<>>, at |-> 0, before |-> NoEntry, resp |-> CallNext,
     seen |-> FALSE]

RateIdle ==
    /\ requestCounts = EmptyMap
    /\ now = 0
    /\ rl = NoRequest
    /\ admitted = EmptyMap

\* No request in hand.
NoFetch ==
    [method |-> "", pathParts |-> <<>>, searchParams |-> <<>>,
     authorization |-> Undefined, data |-> JsonOther("unparsable")]

RestIdle ==
    /\ pc = "idle"
    /\ request = NoFetch
    /\ response = CallNext
    /\ dbCalls = <<>>

FlightIdle ==
    /\ inFlight = <<>>
    /\ arrivals = 0

NoTally == [n |-> 0, until |-> 0]

TallyIdle ==
    /\ admittedAt = EmptyMap
    /\ unauthorized = NoTally

-----------------------------------------------------------------------------
(* SpecAuth: authMiddleware on bounded secrets and headers *)

MaxSecretLen == 2

\* Non-empty strings without leading or trailing blanks (the Headers API
\* strips them from a header value).
AuthBodies == StringsUpTo({"x", "y"}, MaxSecretLen) \ {<<>>}

\* A secret may itself start with "Bearer ".
Secrets == AuthBodies \cup {BearerPrefix \o b : b \in AuthBodies}

\* No header, an empty header, and a body under zero, one or two "Bearer "
\* prefixes.
AuthHeaders ==
    {Undefined, Str(<<>>)}
        \cup {Str(b) : b \in AuthBodies}
        \cup {Str(BearerPrefix \o b) : b \in AuthBodies}
        \cup {Str(BearerPrefix \o BearerPrefix \o b) : b \in AuthBodies}


AuthInit ==
    /\ secret \in Secrets
    /\ earlyExit \in BOOLEAN
    /\ authHeader = Undefined
    /\ authResp = NoAuth
    /\ authPrev = NoAuth
    /\ SanIdle
    /\ RateIdle
    /\ RestIdle
    /\ FlightIdle
    /\ TallyIdle

\* One request through authMiddleware.
Authenticate ==
    \E h \in AuthHeaders :
        /\ authHeader' = h
        /\ authResp' = [header |-> h, resp |-> AuthMiddleware(h, secret),
                        steps |-> AuthCompareSteps(h, secret, earlyExit),
                        seen |-> TRUE]
        /\ authPrev' = authResp
        /\ UNCHANGED <<secret, earlyExit, sanVars, rateVars, restVars,
                   flightVars, tallyVars>>

AuthNext == Authenticate

SpecAuth == AuthInit /\ [][AuthNext]_vars

-----------------------------------------------------------------------------
(* SpecRate: the rate limiting middleware over a moving clock *)

\* The clock reads 0, then the end of the first window (its last
\* millisecond, RATE_LIMIT_WINDOW) and up to MaxLate milliseconds past it.
MaxLate == 1

ClockPoints == {0} \cup {RATE_LIMIT_WINDOW + k : k \in 0..MaxLate}

ClientAddress == <<"1", "0", ".", "0", ".", "0", ".", "1">>

\* The cf-connecting-ip and x-forwarded-for headers of a request.
CfHeaders == {Undefined, Str(<<>>), Str(ClientAddress)}
XffHeaders == {Undefined, Str(ClientAddress)}

RateInit ==
    /\ RateIdle
    /\ SanIdle
    /\ AuthIdle
    /\ RestIdle
    /\ FlightIdle
    /\ TallyIdle

\* Time passes; the last response has been sent.
Tick ==
    \E t \in ClockPoints :
        /\ t > now
        /\ now' = t
        /\ rl' = NoRequest
        /\ UNCHANGED <<requestCounts, admitted, sanVars, authVars, restVars,
                   flightVars, tallyVars>>

\* The requests let through for client k in its window, after one more at
\* time t: a window starts with the request that finds none open.
Admit(adm, k, t) ==
    IF k \in DOMAIN adm /\ t <= adm[k].until
    THEN [adm EXCEPT ![k].n = @ + 1]
    ELSE MapSet(adm, k, [n |-> 1, until |-> t + RATE_LIMIT_WINDOW])

\* One request through the rate limiting middleware.
RateLimit ==
    \E cf \in CfHeaders, xff \in XffHeaders :
        LET clientIP == ClientIP(cf, xff)
            r == RateLimiter(requestCounts, clientIP, now)
        IN  /\ requestCounts' = r.counts
            /\ rl' = [clientIP |-> clientIP, at |-> now,
                      before |-> IF clientIP \in DOMAIN requestCounts
                                 THEN requestCounts[clientIP] ELSE NoEntry,
                      resp |-> r.resp, seen |-> TRUE]
            /\ admitted' = IF r.resp.next THEN Admit(admitted, clientIP, now)
                           ELSE admitted
            /\ UNCHANGED <<now, sanVars, authVars, restVars, flightVars, tallyVars>>

RateNext == Tick \/ RateLimit

SpecRate == RateInit /\ [][RateNext]_vars

-----------------------------------------------------------------------------
(* SpecSan: sanitizeIdentifier on bounded inputs *)

MaxIdentLen == 3

\* Letters of both cases, the underscore, a digit and two disallowed
\* characters.
SanChars == {"a", "Z", "_", "7", ";", "-"}

SanInputs ==
    {Str(s) : s \in StringsUpTo(SanChars, MaxIdentLen)}
        \cup {Undefined, Null, Num(0), Num(5)}

SanInit ==
    /\ SanIdle
    /\ AuthIdle
    /\ RestIdle
    /\ RateIdle
    /\ FlightIdle
    /\ TallyIdle

\* A call sanitizeIdentifier(x).
Sanitize ==
    \E x \in SanInputs :
        /\ sanInput' = x
        /\ sanResult' = SanitizeIdentifier(x)
        /\ sanAgain' = None
        /\ UNCHANGED <<authVars, rateVars, restVars, flightVars, tallyVars>>

\* A call sanitizeIdentifier(r) on the result r of the last call.
SanitizeAgain ==
    /\ sanResult.ok
    /\ sanAgain = None
    /\ sanAgain' = SanitizeIdentifier(Str(sanResult.value))
    /\ UNCHANGED <<sanInput, sanResult>>
    /\ UNCHANGED <<authVars, rateVars, restVars, flightVars, tallyVars>>

SanNext == Sanitize \/ SanitizeAgain

SpecSan == SanInit /\ [][SanNext]_vars

-----------------------------------------------------------------------------
(* SpecRest: handleRest and the four handlers, one request at a time *)

MaxBodyKeys == 2
MaxQueryEntries == 2

\* Names as a client may write them: clean ones, ones with characters the
\* sanitizer strips, ones it rejects.
TableNames == {<<"u", "s", "e", "r", "s">>, <<"a", ";">>, <<";", "1", "a">>, <<";">>}
BodyKeys == {<<"i", "d">>, <<"i", ";", "d">>, <<"a">>, <<"a", ";">>, <<"B", "_", "2">>, <<";", "1", "a">>, <<";">>, <<>>}
FilterKeys == {<<"a", ";">>, <<"B", "_", "2">>, <<";", "1", "a">>, <<>>}
SortColumns == {<<"a", ";">>, <<"1", "a">>, <<>>}
OrderWords == {<<"D", "e", "S", "c">>, <<"a", "s", "c">>}
LimitWords == {<<"1", "0">>, <<"a", "b", "c">>, <<>>}
OffsetWords == {<<"2", "0">>, <<>>}
PathId == <<"7">>
TextValue == <<"'", "v">>

\* Sequences over S of length at most n without a repeated element.
DistinctSeqs(S, n) ==
    {s \in UNION {[1..k -> S] : k \in 0..n} :
        \A i, j \in 1..Len(s) : i # j => s[i] # s[j]}

\* The value under the i-th key of a body: a text first, numbers after it,
\* all different.
ValueAt(i) == IF i = 1 THEN Str(TextValue) ELSE Num(i)

Bodies ==
    {JsonObject(keys, [i \in 1..Len(keys) |-> ValueAt(i)]) :
        keys \in DistinctSeqs(BodyKeys, MaxBodyKeys)}
    \cup {NoBody, JsonOther("array"), JsonOther("null"), JsonOther("number"),
          JsonOther("string")}

QueryEntries ==
    {<<k, TextValue>> : k \in FilterKeys}
    \cup {<<KeySortBy, s>> : s \in SortColumns}
    \cup {<<KeyOrder, o>> : o \in OrderWords}
    \cup {<<KeyLimit, l>> : l \in LimitWords}
    \cup {<<KeyOffset, o>> : o \in OffsetWords}

SearchParams == UNION {[1..k -> QueryEntries] : k \in 0..MaxQueryEntries}

RestPaths ==
    {<<RestPrefix>>}
    \cup {<<RestPrefix, t>> : t \in TableNames}
    \cup {<<RestPrefix, t, PathId>> : t \in TableNames}

OtherMethods == {"HEAD"}

RestInit ==
    SanIdle /\ AuthIdle /\ RateIdle /\ RestIdle /\ FlightIdle /\ TallyIdle

\* The request as handleRest sees it.
RestRequest(method, pathParts, searchParams, data) ==
    [method |-> method, pathParts |-> pathParts, searchParams |-> searchParams,
     authorization |-> Undefined, data |-> data]

RestGet ==
    /\ pc = "idle"
    /\ \E pathParts \in RestPaths, searchParams \in SearchParams,
          outcome \in {DbRan(0)} \cup DbFailures :
        \E h \in {HandleRest("GET", pathParts, searchParams, NoBody, outcome)} :
            /\ request' = RestRequest("GET", pathParts, searchParams, NoBody)
            /\ response' = h.resp
            /\ dbCalls' = h.db
    /\ pc' = "responded"
    /\ UNCHANGED <<sanVars, authVars, rateVars, flightVars, tallyVars>>

RestPost ==
    /\ pc = "idle"
    /\ \E pathParts \in RestPaths, data \in Bodies, outcome \in DbOutcomes :
        \E h \in {HandleRest("POST", pathParts, <<>>, data, outcome)} :
            /\ request' = RestRequest("POST", pathParts, <<>>, data)
            /\ response' = h.resp
            /\ dbCalls' = h.db
    /\ pc' = "responded"
    /\ UNCHANGED <<sanVars, authVars, rateVars, flightVars, tallyVars>>

RestUpdate ==
    /\ pc = "idle"
    /\ \E method \in UpdateMethods, pathParts \in RestPaths, data \in Bodies,
          outcome \in DbOutcomes :
        \E h \in {HandleRest(method, pathParts, <<>>, data, outcome)} :
            /\ request' = RestRequest(method, pathParts, <<>>, data)
            /\ response' = h.resp
            /\ dbCalls' = h.db
    /\ pc' = "responded"
    /\ UNCHANGED <<sanVars, authVars, rateVars, flightVars, tallyVars>>

RestDelete ==
    /\ pc = "idle"
    /\ \E pathParts \in RestPaths, outcome \in DbOutcomes :
        \E h \in {HandleRest("DELETE", pathParts, <<>>, NoBody, outcome)} :
            /\ request' = RestRequest("DELETE", pathParts, <<>>, NoBody)
            /\ response' = h.resp
            /\ dbCalls' = h.db
    /\ pc' = "responded"
    /\ UNCHANGED <<sanVars, authVars, rateVars, flightVars, tallyVars>>

RestOther ==
    /\ pc = "idle"
    /\ \E method \in OtherMethods, pathParts \in RestPaths :
        \E h \in {HandleRest(method, pathParts, <<>>, NoBody, DbThrew)} :
            /\ request' = RestRequest(method, pathParts, <<>>, NoBody)
            /\ response' = h.resp
            /\ dbCalls' = h.db
    /\ pc' = "responded"
    /\ UNCHANGED <<sanVars, authVars, rateVars, flightVars, tallyVars>>

\* The response has gone out; the next request may come.
RestDone ==
    /\ pc = "responded"
    /\ pc' = "idle"
    /\ request' = NoFetch
    /\ response' = CallNext
    /\ dbCalls' = <<>>
    /\ UNCHANGED <<sanVars, authVars, rateVars, flightVars, tallyVars>>

RestNext ==
    RestGet \/ RestPost \/ RestUpdate \/ RestDelete \/ RestOther \/ RestDone

SpecRest == RestInit /\ [][RestNext]_vars

-----------------------------------------------------------------------------
(* SpecQuery: the /query handler, one request at a time *)

MaxQueryTokens == 3

\* Pieces of query text: the denylisted words in mixed case, a separator, a
\* word character and a blank.
QueryTokens == {<<"D", "R", "O", "P">>, <<" ", "T", "a", "b", "l", "e">>, <<" ", "d", "a", "t", "a", "b", "a", "s", "e">>, <<"T", "R", "U", "N", "C", "A", "T", "E">>, <<"a", "l", "t", "e", "r">>,
                <<";">>, <<"x">>, <<" ">>}

RECURSIVE Concat(_)
Concat(tokens) ==
    IF tokens = <<>> THEN <<>> ELSE Head(tokens) \o Concat(Tail(tokens))

QueryTexts ==
    {Concat(tokens) : tokens \in UNION {[1..k -> QueryTokens] : k \in 0..MaxQueryTokens}}

\* What a body may hold under "query" and under "params".
QueryValues == {Str(text) : text \in QueryTexts} \cup {Num(5), Null}
ParamsValues == {Arr(<<Num(1)>>), Str(<<"x">>), Null}

QueryRequestBodies ==
    {JsonObject(<<KeyQuery>>, <<query>>) : query \in QueryValues}
    \cup {JsonObject(<<KeyQuery, KeyParams>>, <<query, params>>) :
             query \in QueryValues, params \in ParamsValues}
    \cup {JsonObject(<<KeyParams>>, <<params>>) : params \in ParamsValues}
    \cup {JsonObject(<<>>, <<>>), NoBody, JsonOther("null"), JsonOther("array"),
          JsonOther("number"), JsonOther("string")}

QueryInit ==
    SanIdle /\ AuthIdle /\ RateIdle /\ RestIdle /\ FlightIdle /\ TallyIdle

\* One call of the /query handler, database call included.
QueryPost ==
    /\ pc = "idle"
    /\ \E body \in QueryRequestBodies :
        \E prepared \in {QueryPrepare(body)} :
            /\ request' = [method |-> "POST", pathParts |-> <<QueryPath>>,
                           searchParams |-> <<>>, authorization |-> Undefined,
                           data |-> body]
            /\ IF prepared.run
               THEN \E outcome \in {DbRan(0)} \cup DbFailures :
                        /\ response' = QueryFinish(outcome)
                        /\ dbCalls' = <<DbCall(prepared, outcome)>>
               ELSE /\ response' = prepared.resp
                    /\ dbCalls' = <<>>
    /\ pc' = "responded"
    /\ UNCHANGED <<sanVars, authVars, rateVars, flightVars, tallyVars>>

QueryNext == QueryPost \/ RestDone

SpecQuery == QueryInit /\ [][QueryNext]_vars

-----------------------------------------------------------------------------
(* SpecHandlers: handleRest and the /query handler, one request at a time *)

HandlersInit ==
    SanIdle /\ AuthIdle /\ RateIdle /\ RestIdle /\ FlightIdle /\ TallyIdle

HandlersNext == RestNext \/ QueryPost

SpecHandlers == HandlersInit /\ [][HandlersNext]_vars

-----------------------------------------------------------------------------
(* Spec: one request at a time through fetch *)

\* The client's address header on every request here.
FetchClient == ClientIP(Str(ClientAddress), Undefined)

\* A moment inside the first window and one after it.
FetchClock == {0, RATE_LIMIT_WINDOW + 1}

UsersTable == <<"u", "s", "e", "r", "s">>
HealthPath == <<"h", "e", "a", "l", "t", "h">>

FetchPaths == {<<RestPrefix, UsersTable>>, <<RestPrefix, UsersTable, PathId>>,
               <<QueryPath>>, <<HealthPath>>}

BodyMethods == {"POST", "PATCH", "PUT"}
FetchMethods == {"GET", "DELETE", "OPTIONS"} \cup BodyMethods

QueryBodies ==
    {JsonObject(<<KeyQuery, KeyParams>>, <<Str(<<"S", "E", "L", "E", "C", "T", " ", "?">>), Arr(<<Num(1)>>)>>),
     JsonObject(<<KeyQuery>>, <<Str(<<"D", "R", "O", "P", " ", "T", "A", "B", "L", "E", " ", "t">>)>>),
     NoBody}

FetchBodies(method, pathParts) ==
    IF method \notin BodyMethods THEN {NoBody}
    ELSE IF pathParts = <<QueryPath>> THEN QueryBodies
    ELSE {JsonObject(<<<<"a", ";">>>>, <<Str(TextValue)>>), NoBody}

\* No header, the secret with and without the scheme, another token.
Authorizations ==
    {Undefined, Str(BearerPrefix \o secret), Str(secret),
     Str(BearerPrefix \o <<"y">>)}

Init ==
    SanIdle /\ AuthIdle /\ RateIdle /\ RestIdle /\ FlightIdle /\ TallyIdle

\* A request arrives: fetch is called (line 37).
Receive ==
    /\ pc = "idle"
    /\ \E method \in FetchMethods, pathParts \in FetchPaths,
          authorization \in Authorizations :
        \E data \in FetchBodies(method, pathParts) :
            request' = [method |-> method, pathParts |-> pathParts,
                        searchParams |-> <<>>,
                        authorization |-> authorization, data |-> data]
    /\ pc' = "secret"
    /\ UNCHANGED <<response, dbCalls, sanVars, authVars, rateVars,
                   flightVars, tallyVars>>

\* await env.SECRET.get() (line 94): it resolves, or it rejects and fetch
\* throws.
GetSecret ==
    /\ pc = "secret"
    /\ \/ pc' = "cors" /\ UNCHANGED response
       \/ pc' = "responded" /\ response' = Uncaught
    /\ UNCHANGED <<request, dbCalls, sanVars, authVars, rateVars,
                   flightVars, tallyVars>>

\* The cors middleware (lines 63-70).
Cors ==
    /\ pc = "cors"
    /\ IF request.method = "OPTIONS"
       THEN pc' = "responded" /\ response' = Preflight
       ELSE pc' = "limiter" /\ UNCHANGED response
    /\ UNCHANGED <<request, dbCalls, sanVars, authVars, rateVars,
                   flightVars, tallyVars>>

\* The rate limiting middleware (lines 73-91).
Limit ==
    /\ pc = "limiter"
    /\ \E r \in {RateLimiter(requestCounts, FetchClient, now)} :
        /\ requestCounts' = r.counts
        /\ rl' = [clientIP |-> FetchClient, at |-> now,
                  before |-> IF FetchClient \in DOMAIN requestCounts
                             THEN requestCounts[FetchClient] ELSE NoEntry,
                  resp |-> r.resp, seen |-> TRUE]
        /\ IF r.resp.next
           THEN pc' = "route" /\ UNCHANGED response
           ELSE pc' = "responded" /\ response' = r.resp
    /\ UNCHANGED <<now, admitted, request, dbCalls, sanVars, authVars,
                   flightVars, tallyVars>>

\* The router picks the route (lines 120, 123), or answers 404.
Route ==
    /\ pc = "route"
    /\ \E route \in {MatchRoute(request.method, request.pathParts)} :
        IF route.handler = "none"
        THEN pc' = "responded" /\ response' = NotFound
        ELSE /\ pc' = IF route.auth THEN "auth" ELSE "handler"
             /\ UNCHANGED response
    /\ UNCHANGED <<request, dbCalls, sanVars, authVars, rateVars,
                   flightVars, tallyVars>>

\* authMiddleware (lines 99-117).
Authorize ==
    /\ pc = "auth"
    /\ \E a \in {AuthMiddleware(request.authorization, secret)} :
        /\ authResp' = [header |-> request.authorization, resp |-> a,
                        steps |-> AuthCompareSteps(request.authorization,
                                                   secret, earlyExit),
                        seen |-> TRUE]
        /\ IF a.next
           THEN pc' = "handler" /\ UNCHANGED response
           ELSE pc' = "responded" /\ response' = a
    /\ UNCHANGED <<secret, authHeader, authPrev, earlyExit, request, dbCalls,
                   sanVars, rateVars, flightVars, tallyVars>>

\* The handler up to its database call: handleRest (rest.ts) or the /query
\* handler (lines 123-158).
Handle ==
    /\ pc = "handler"
    /\ \E prepared \in {Prepare(request)} :
        IF prepared.run
        THEN pc' = "database" /\ UNCHANGED response
        ELSE pc' = "responded" /\ response' = prepared.resp
    /\ UNCHANGED <<request, dbCalls, sanVars, authVars, rateVars,
                   flightVars, tallyVars>>

\* DB.prepare(query).bind(...params).all() or .run(), and the rest of the
\* handler.
Database ==
    /\ pc = "database"
    /\ \E outcome \in DbOutcomes :
        /\ dbCalls' = Append(dbCalls, DbCall(Prepare(request), outcome))
        /\ response' = Finish(request, outcome)
    /\ pc' = "responded"
    /\ UNCHANGED <<request, sanVars, authVars, rateVars, flightVars, tallyVars>>

\* The response goes out.
Respond ==
    /\ pc = "responded"
    /\ pc' = "idle"
    /\ request' = NoFetch
    /\ response' = CallNext
    /\ dbCalls' = <<>>
    /\ rl' = NoRequest
    /\ authResp' = NoAuth
    /\ UNCHANGED <<requestCounts, now, admitted, secret, authHeader, authPrev,
                   earlyExit, sanVars, flightVars, tallyVars>>

\* Time passes between two requests.
Later ==
    /\ pc = "idle"
    /\ \E t \in FetchClock : t > now /\ now' = t
    /\ UNCHANGED <<requestCounts, rl, admitted, sanVars, authVars, restVars,
                   flightVars, tallyVars>>

Next ==
    \/ Receive \/ GetSecret \/ Cors \/ Limit \/ Route \/ Authorize
    \/ Handle \/ Database \/ Respond \/ Later

Spec == Init /\ [][Next]_vars

-----------------------------------------------------------------------------
(* SpecFlights: several requests in flight through fetch at once.  A request *)
(* is suspended where the code awaits: env.SECRET.get() (line 94),           *)
(* c.req.json() in the handler, and the database call.  Between two awaits   *)
(* the code of one request runs alone (one event loop), so the rate          *)
(* limiting middleware, which awaits nothing between requestCounts.get and   *)
(* requestCounts.set or count++, is one step.                                *)

\* The requests served at once, and the requests that arrive in a run.
MaxInFlight == 2
MaxArrivals == 3

Flights == 1..MaxInFlight

\* The cf-connecting-ip and x-forwarded-for headers of a request in flight.
FlightCfHeaders == {Undefined, Str(ClientAddress)}
FlightXffHeaders == {Undefined}

\* Every request in flight is a create: its handler awaits both the body
\* and the database.
FlightMethods == {"POST"}

\* What the database call of a request in flight may do.
FlightOutcomes == {DbRan(1), DbThrew}

\* An empty slot.
NoFlight ==
    [pc |-> "idle", cf |-> Undefined, xff |-> Undefined, req |-> NoFetch,
     at |-> 0, resp |-> CallNext]

\* The map after MAX_REQUESTS - 1 requests without address headers at time 0.
AlmostFull ==
    MapSet(EmptyMap, Unknown,
           [count |-> MAX_REQUESTS - 1, resetTime |-> RATE_LIMIT_WINDOW])

FlightsInit ==
    /\ SanIdle /\ AuthIdle /\ RestIdle /\ TallyIdle
    /\ inFlight = [i \in Flights |-> NoFlight]
    /\ arrivals = 0
    /\ now = 0
    /\ rl = NoRequest
    /\ \/ requestCounts = EmptyMap /\ admitted = EmptyMap
       \/ /\ requestCounts = AlmostFull
          /\ admitted = MapSet(EmptyMap, Unknown,
                               [n |-> MAX_REQUESTS - 1,
                                until |-> RATE_LIMIT_WINDOW])

\* fetch is called for a new request (line 37) and awaits the secret.  The
\* request takes the first empty slot.
FlightArrive(i) ==
    /\ inFlight[i].pc = "idle"
    /\ \A j \in 1..(i - 1) : inFlight[j].pc # "idle"
    /\ arrivals < MaxArrivals
    /\ arrivals' = arrivals + 1
    /\ \E cf \in FlightCfHeaders, xff \in FlightXffHeaders,
          method \in FlightMethods :
        inFlight' = [inFlight EXCEPT ![i] =
            [NoFlight EXCEPT
                !.pc = "secret", !.cf = cf, !.xff = xff,
                !.req = [method |-> method,
                         pathParts |-> <<RestPrefix, UsersTable>>,
                         searchParams |-> <<>>,
                         authorization |-> Str(BearerPrefix \o secret),
                         data |-> IF method \in BodyMethods
                                  THEN JsonObject(<<<<"a">>>>, <<Str(TextValue)>>)
                                  ELSE NoBody]]]
    /\ UNCHANGED <<sanVars, authVars, rateVars, restVars, tallyVars>>

\* env.SECRET.get() settles (line 94): app.fetch starts, or fetch throws.
FlightSecret(i) ==
    /\ inFlight[i].pc = "secret"
    /\ \/ inFlight' = [inFlight EXCEPT ![i].pc = "limiter"]
       \/ inFlight' = [inFlight EXCEPT ![i].pc = "responded",
                                       ![i].resp = Uncaught]
    /\ UNCHANGED <<arrivals, sanVars, authVars, rateVars, restVars, tallyVars>>

\* The rate limiting middleware (lines 73-91), from its first line to its
\* return.
FlightLimit(i) ==
    /\ inFlight[i].pc = "limiter"
    /\ \E clientIP \in {ClientIP(inFlight[i].cf, inFlight[i].xff)} :
       \E r \in {RateLimiter(requestCounts, clientIP, now)} :
        /\ requestCounts' = r.counts
        /\ admitted' = IF r.resp.next THEN Admit(admitted, clientIP, now)
                       ELSE admitted
        /\ inFlight' = [inFlight EXCEPT
               ![i].at = now,
               ![i].pc = IF r.resp.next THEN "gate" ELSE "responded",
               ![i].resp = IF r.resp.next THEN CallNext ELSE r.resp]
    /\ UNCHANGED <<now, rl, arrivals, sanVars, authVars, restVars, tallyVars>>

\* The router and authMiddleware (lines 99-120), and the handler up to its
\* first await: c.req.json() (rest.ts lines 98, 136) or the database call.
FlightGate(i) ==
    /\ inFlight[i].pc = "gate"
    /\ \E a \in {AuthMiddleware(inFlight[i].req.authorization, secret)} :
        IF ~a.next
        THEN inFlight' = [inFlight EXCEPT ![i].pc = "responded", ![i].resp = a]
        ELSE IF inFlight[i].req.method \in BodyMethods
        THEN inFlight' = [inFlight EXCEPT ![i].pc = "body"]
        ELSE \E prepared \in {Prepare(inFlight[i].req)} :
                IF prepared.run
                THEN inFlight' = [inFlight EXCEPT ![i].pc = "database"]
                ELSE inFlight' = [inFlight EXCEPT ![i].pc = "responded",
                                                  ![i].resp = prepared.resp]
    /\ UNCHANGED <<arrivals, sanVars, authVars, rateVars, restVars, tallyVars>>

\* The body has been read: the handler goes on to its database call.
FlightBody(i) ==
    /\ inFlight[i].pc = "body"
    /\ \E prepared \in {Prepare(inFlight[i].req)} :
        IF prepared.run
        THEN inFlight' = [inFlight EXCEPT ![i].pc = "database"]
        ELSE inFlight' = [inFlight EXCEPT ![i].pc = "responded",
                                          ![i].resp = prepared.resp]
    /\ UNCHANGED <<arrivals, sanVars, authVars, rateVars, restVars, tallyVars>>

\* The database call settles, and the handler answers.
FlightDatabase(i) ==
    /\ inFlight[i].pc = "database"
    /\ \E outcome \in FlightOutcomes :
        inFlight' = [inFlight EXCEPT
            ![i].pc = "responded",
            ![i].resp = Finish(inFlight[i].req, outcome)]
    /\ UNCHANGED <<arrivals, sanVars, authVars, rateVars, restVars, tallyVars>>

\* The response goes out.
FlightRespond(i) ==
    /\ inFlight[i].pc = "responded"
    /\ inFlight' = [inFlight EXCEPT ![i] = NoFlight]
    /\ UNCHANGED <<arrivals, sanVars, authVars, rateVars, restVars, tallyVars>>

\* Time passes, whatever is in flight.
FlightLater ==
    /\ \E t \in FetchClock : t > now /\ now' = t
    /\ UNCHANGED <<requestCounts, rl, admitted, sanVars, authVars, restVars,
                   flightVars, tallyVars>>

FlightsNext ==
    \/ \E i \in Flights :
        \/ FlightArrive(i) \/ FlightSecret(i) \/ FlightLimit(i)
        \/ FlightGate(i) \/ FlightBody(i) \/ FlightDatabase(i)
        \/ FlightRespond(i)
    \/ FlightLater

SpecFlights == FlightsInit /\ [][FlightsNext]_vars

-----------------------------------------------------------------------------
(* SpecClients: the rate limiting middleware on requests with and without   *)
(* address headers, from an empty map and from one that is nearly full for  *)
(* the clients without an address.                                          *)

OtherAddress == <<"1", "0", ".", "0", ".", "0", ".", "2">>

ClientCfHeaders == {Undefined, Str(<<>>), Str(ClientAddress)}
ClientXffHeaders == {Undefined, Str(<<>>), Str(OtherAddress)}

ClientsInit ==
    /\ SanIdle /\ AuthIdle /\ RestIdle /\ FlightIdle /\ TallyIdle
    /\ now = 0
    /\ rl = NoRequest
    /\ \/ requestCounts = EmptyMap /\ admitted = EmptyMap
       \/ /\ requestCounts = AlmostFull
          /\ admitted = MapSet(EmptyMap, Unknown,
                               [n |-> MAX_REQUESTS - 1,
                                until |-> RATE_LIMIT_WINDOW])

\* One request, with its address headers, through the rate limiting
\* middleware.
ClientLimit ==
    /\ arrivals < MaxArrivals
    /\ arrivals' = arrivals + 1
    /\ \E cf \in ClientCfHeaders, xff \in ClientXffHeaders :
        LET clientIP == ClientIP(cf, xff)
            r == RateLimiter(requestCounts, clientIP, now)
        IN  /\ requestCounts' = r.counts
            /\ rl' = [clientIP |-> clientIP, at |-> now,
                      before |-> IF clientIP \in DOMAIN requestCounts
                                 THEN requestCounts[clientIP] ELSE NoEntry,
                      resp |-> r.resp, seen |-> TRUE, cf |-> cf, xff |-> xff]
            /\ admitted' = IF r.resp.next THEN Admit(admitted, clientIP, now)
                           ELSE admitted
    /\ UNCHANGED <<now, inFlight, sanVars, authVars, restVars, tallyVars>>

ClientsNext == Tick \/ ClientLimit

SpecClients == ClientsInit /\ [][ClientsNext]_vars

-----------------------------------------------------------------------------
(* SpecBurst: one client sending in bursts across window boundaries, with   *)
(* the requests let through tallied by the reading of the clock.            *)

\* The clock reads the start, the last millisecond and the first millisecond
\* after it of a first and of a second window.
BurstClock ==
    {0, RATE_LIMIT_WINDOW, RATE_LIMIT_WINDOW + 1,
     2 * RATE_LIMIT_WINDOW + 1, 2 * RATE_LIMIT_WINDOW + 2}

\* The client pauses after at most MaxQuiet requests at one reading of the
\* clock, or goes on until its window is full.
MaxQuiet == 1

BurstInit ==
    /\ SanIdle /\ AuthIdle /\ RestIdle /\ FlightIdle
    /\ requestCounts = EmptyMap
    /\ now = 0
    /\ rl = NoRequest
    /\ admitted = EmptyMap
    /\ admittedAt = [t \in BurstClock |-> 0]
    /\ unauthorized = NoTally

\* One request of the client through the rate limiting middleware.
BurstRequest ==
    /\ \E r \in {RateLimiter(requestCounts, FetchClient, now)} :
        /\ requestCounts' = r.counts
        /\ rl' = [clientIP |-> FetchClient, at |-> now,
                  before |-> IF FetchClient \in DOMAIN requestCounts
                             THEN requestCounts[FetchClient] ELSE NoEntry,
                  resp |-> r.resp, seen |-> TRUE]
        /\ admittedAt' = IF r.resp.next
                         THEN [admittedAt EXCEPT ![now] = @ + 1]
                         ELSE admittedAt
    /\ UNCHANGED <<now, admitted, unauthorized, sanVars, authVars, restVars,
                   flightVars>>

\* Time passes while the client pauses.
BurstLater ==
    /\ \/ admittedAt[now] <= MaxQuiet
       \/ /\ FetchClient \in DOMAIN requestCounts
          /\ requestCounts[FetchClient].count >= MAX_REQUESTS
    /\ \E t \in BurstClock : t > now /\ now' = t
    /\ rl' = NoRequest
    /\ UNCHANGED <<requestCounts, admitted, sanVars, authVars, restVars,
                   flightVars, tallyVars>>

BurstNext == BurstRequest \/ BurstLater

SpecBurst == BurstInit /\ [][BurstNext]_vars

-----------------------------------------------------------------------------
(* SpecGate: reads of one client, with and without the secret, through the  *)
(* rate limiter and the auth gate, with the 401 answers of the client's     *)
(* window tallied.                                                          *)

\* No header, the secret, another token.
GateAuthorizations ==
    {Undefined, Str(BearerPrefix \o secret), Str(BearerPrefix \o <<"y">>)}

GateInit ==
    SanIdle /\ AuthIdle /\ RateIdle /\ RestIdle /\ FlightIdle /\ TallyIdle

\* Mutant: the request goes to the auth gate without passing the limiter.
GateReceiveAuthFirst ==
    /\ pc = "idle"
    /\ \E authorization \in GateAuthorizations :
        request' = [method |-> "GET", pathParts |-> <<RestPrefix, UsersTable>>,
                    searchParams |-> <<>>, authorization |-> authorization,
                    data |-> NoBody]
    /\ pc' = "auth"
    /\ UNCHANGED <<response, dbCalls, sanVars, authVars, rateVars,
                   flightVars, tallyVars>>

\* A read arrives; the secret is fetched (line 94) and the cors middleware
\* (lines 63-70) passes it on to the rate limiting middleware.
GateReceive ==
    /\ pc = "idle"
    /\ \E authorization \in GateAuthorizations :
        request' = [method |-> "GET", pathParts |-> <<RestPrefix, UsersTable>>,
                    searchParams |-> <<>>, authorization |-> authorization,
                    data |-> NoBody]
    /\ pc' = "limiter"
    /\ UNCHANGED <<response, dbCalls, sanVars, authVars, rateVars,
                   flightVars, tallyVars>>

\* The 401 answers of the client's window, after one more.
Tally401(tally, window) ==
    IF tally.until = window THEN [tally EXCEPT !.n = @ + 1]
    ELSE [n |-> 1, until |-> window]

\* The response goes out.
GateRespond ==
    /\ pc = "responded"
    /\ pc' = "idle"
    /\ request' = NoFetch
    /\ response' = CallNext
    /\ dbCalls' = <<>>
    /\ rl' = NoRequest
    /\ authResp' = NoAuth
    /\ unauthorized' =
           IF response.status = 401 /\ FetchClient \in DOMAIN requestCounts
           THEN Tally401(unauthorized, requestCounts[FetchClient].resetTime)
           ELSE unauthorized
    /\ UNCHANGED <<requestCounts, now, admitted, secret, authHeader, authPrev,
                   earlyExit, admittedAt, sanVars, flightVars>>

GateNext ==
    \/ GateReceive \/ Limit \/ Route \/ Authorize \/ Handle \/ Database
    \/ GateRespond \/ Later

SpecGate == GateInit /\ [][GateNext]_vars

-----------------------------------------------------------------------------
(* Claims about sanitizeIdentifier (SpecSan) *)

\* s without its characters outside [A-Za-z0-9_], by recursion on s.
RECURSIVE WithoutDisallowed(_)
WithoutDisallowed(s) ==
    IF s = <<>> THEN <<>>
    ELSE IF Head(s) \in LowerCase \cup UpperCase \cup Digits \cup {"_"}
         THEN <<Head(s)>> \o WithoutDisallowed(Tail(s))
         ELSE WithoutDisallowed(Tail(s))

\* Non-empty, only [A-Za-z0-9_], first character not a digit.
ValidIdentifier(s) ==
    /\ Len(s) > 0
    /\ \A i \in 1..Len(s) : s[i] \in LowerCase \cup UpperCase \cup Digits \cup {"_"}
    /\ s[1] \notin Digits

\* C8: sanitizeIdentifier returns its input without the characters outside
\* [A-Za-z0-9_], and throws exactly when the input is empty or not a string,
\* the stripped string is empty, or the stripped string starts with a digit.
C8_SanitizerResult ==
    sanResult # None =>
        LET stripped == WithoutDisallowed(sanInput.s)
            fails == \/ sanInput.t # "string"
                     \/ sanInput.s = <<>>
                     \/ stripped = <<>>
                     \/ stripped[1] \in Digits
        IN  /\ sanResult.ok <=> ~fails
            /\ sanResult.ok => sanResult.value = stripped
            /\ ~sanResult.ok => sanResult.value = <<>>

\* C8 witness: a call that succeeded and removed at least one character.
C8_Witness ==
    /\ sanResult.ok
    /\ Len(sanResult.value) < Len(sanInput.s)

\* C9: sanitizeIdentifier returns a valid identifier unchanged, and applied
\* to one of its own results it returns that result.
C9_SanitizerIdempotent ==
    /\ (sanResult # None /\ sanInput.t = "string" /\ ValidIdentifier(sanInput.s))
           => sanResult = Returned(sanInput.s)
    /\ sanAgain # None => sanAgain = sanResult

\* C9 witness: a second application to the result of a call that had
\* stripped two characters or more.
C9_Witness ==
    /\ sanAgain # None
    /\ Len(sanResult.value) + 2 <= Len(sanInput.s)

-----------------------------------------------------------------------------
(* Claims about the auth gate (SpecAuth) *)

\* The header without one leading "Bearer ", if it has one.
WithoutBearer(h) ==
    IF Len(h) >= 7 /\ SubSeq(h, 1, 7) = <<"B", "e", "a", "r", "e", "r", " ">>
    THEN SubSeq(h, 8, Len(h))
    ELSE h

Rejected401(a) == a.seen /\ ~a.resp.next /\ a.resp.status = 401

\* The three ways of failing the gate.
MissingHeader(a) == a.seen /\ (a.header.t # "string" \/ a.header.s = <<>>)
WrongLength(a) ==
    a.seen /\ ~MissingHeader(a) /\ Len(WithoutBearer(a.header.s)) # Len(secret)
WrongContent(a) ==
    /\ a.seen /\ ~MissingHeader(a)
    /\ Len(WithoutBearer(a.header.s)) = Len(secret)
    /\ WithoutBearer(a.header.s) # secret

\* C4 as claimed: "Bearer " followed by the secret is accepted, the raw
\* secret is accepted, and a token that differs from the secret gets 401.
C4_Original ==
    authResp.seen =>
        /\ authHeader = Str(BearerPrefix \o secret) => authResp.resp.next
        /\ authHeader = Str(secret) => authResp.resp.next
        /\ (~MissingHeader(authResp) /\ WithoutBearer(authHeader.s) # secret)
               => Rejected401(authResp)

\* C4 amended: for a non-empty secret, "Bearer " followed by the secret is
\* accepted; the raw secret is accepted exactly when the secret does not
\* itself start with "Bearer "; a token that differs from the secret gets 401.
C4_AuthAcceptance ==
    authResp.seen =>
        /\ authHeader = Str(BearerPrefix \o secret) => authResp.resp.next
        /\ authHeader = Str(secret) =>
               (authResp.resp.next <=> ~StartsWith(secret, BearerPrefix))
        /\ (~MissingHeader(authResp) /\ WithoutBearer(authHeader.s) # secret)
               => Rejected401(authResp)

\* C4 witness: the raw secret, sent without a prefix, was accepted.
C4_Witness ==
    /\ authResp.seen
    /\ authHeader = Str(secret)
    /\ authResp.resp.next

\* C5 as claimed: any two requests that fail the gate get the same response,
\* whichever of the three ways they fail.
C5_Original ==
    (Rejected401(authPrev) /\ Rejected401(authResp))
        => authPrev.resp = authResp.resp

\* C5 amended: every failure is a 401 with the WWW-Authenticate header and a
\* body of the one field error; a token of the wrong length and a token of
\* the right length and wrong content get the same response; a missing
\* header gets a different error text.
C5_Uniform401 ==
    /\ \A a \in {authPrev, authResp} :
           (MissingHeader(a) \/ WrongLength(a) \/ WrongContent(a)) =>
               /\ Rejected401(a)
               /\ a.resp.headers = {<<"WWW-Authenticate", "Bearer realm=\"API\"">>}
               /\ DOMAIN a.resp.body = {"error"}
    /\ ((WrongLength(authPrev) \/ WrongContent(authPrev))
            /\ (WrongLength(authResp) \/ WrongContent(authResp)))
           => authPrev.resp = authResp.resp
    /\ (MissingHeader(authPrev) /\ ~MissingHeader(authResp) /\ Rejected401(authResp))
           => authPrev.resp.body.error # authResp.resp.body.error

\* C5 witness: a token of the wrong length after a token of the right length
\* and wrong content.
C5_Witness ==
    /\ WrongContent(authPrev)
    /\ WrongLength(authResp)

\* C6: two tokens of the secret's length cost the same number of character
\* comparisons, wherever they differ from the secret.
C6_ConstantTime ==
    LET sameLength(a) ==
            a.seen /\ ~MissingHeader(a)
                /\ Len(WithoutBearer(a.header.s)) = Len(secret)
    IN  (sameLength(authPrev) /\ sameLength(authResp))
            => authPrev.steps = authResp.steps

-----------------------------------------------------------------------------
(* Claims about the rate limiter (SpecRate) *)

\* C1: the request that finds no entry creates one with resetTime = now +
\* 60000; once 100 requests of a client have been let through in its window,
\* every further one arriving with now <= resetTime is answered 429 and not
\* passed on; at most 100 are let through per window and no stored count
\* exceeds 100.
C1_AdmissionBound ==
    /\ \A k \in DOMAIN admitted : admitted[k].n <= MAX_REQUESTS
    /\ \A k \in DOMAIN requestCounts : requestCounts[k].count <= MAX_REQUESTS
    /\ (rl.seen /\ rl.before = NoEntry) =>
           /\ rl.resp.next
           /\ requestCounts[rl.clientIP] =
                  [count |-> 1, resetTime |-> rl.at + RATE_LIMIT_WINDOW]
    /\ (rl.seen /\ rl.before.count >= MAX_REQUESTS /\ rl.at <= rl.before.resetTime) =>
           /\ ~rl.resp.next
           /\ rl.resp.status = 429
    /\ (rl.seen /\ ~rl.resp.next) =>
           /\ rl.resp.status = 429
           /\ rl.before.count >= MAX_REQUESTS

\* C1 witness: a request answered 429 after 100 were let through.
C1_Witness ==
    /\ rl.seen
    /\ rl.resp.status = 429
    /\ admitted[rl.clientIP].n = MAX_REQUESTS

\* C2: a request that finds an entry and arrives with now > resetTime is let
\* through and replaces the entry by {count: 1, resetTime: now + 60000},
\* whatever the count was; one that arrives with now = resetTime does not
\* reset the entry.
C2_WindowReset ==
    (rl.seen /\ rl.before # NoEntry) =>
        /\ rl.at > rl.before.resetTime =>
               /\ rl.resp.next
               /\ requestCounts[rl.clientIP] =
                      [count |-> 1, resetTime |-> rl.at + RATE_LIMIT_WINDOW]
        /\ rl.at = rl.before.resetTime =>
               /\ requestCounts[rl.clientIP].resetTime = rl.before.resetTime
               /\ IF rl.before.count >= MAX_REQUESTS
                  THEN ~rl.resp.next /\ requestCounts[rl.clientIP] = rl.before
                  ELSE requestCounts[rl.clientIP].count = rl.before.count + 1

\* C2 witness: a client that was being rejected at count 100 is let through
\* by the first request after its window.
C2_Witness ==
    /\ rl.seen
    /\ rl.before.count = MAX_REQUESTS
    /\ rl.at > rl.before.resetTime
    /\ rl.resp.next

-----------------------------------------------------------------------------
(* Claims about the SQL the handlers emit (SpecRest) *)

\* A reader of SQL text: what is left to read, and whether what was read so
\* far fits.
Reading(s) == [ok |-> TRUE, rest |-> s]
Misread == [ok |-> FALSE, rest |-> <<>>]

\* The fixed text lit comes next.
Lit(p, lit) ==
    IF p.ok /\ StartsWith(p.rest, lit)
    THEN Reading(Substring(p.rest, Len(lit)))
    ELSE Misread

\* How many characters of [A-Za-z0-9_] start s.
RECURSIVE IdentLen(_)
IdentLen(s) ==
    IF s = <<>> \/ ~IdentifierChar(Head(s)) THEN 0
    ELSE 1 + IdentLen(Tail(s))

\* An identifier comes next: one or more of [A-Za-z0-9_], the first one not
\* a digit.
Ident(p) ==
    IF p.ok /\ IdentLen(p.rest) > 0 /\ Head(p.rest) \notin Digits
    THEN Reading(Substring(p.rest, IdentLen(p.rest)))
    ELSE Misread

\* Either of two readings, the first if it fits.
Either(p, q) == IF p.ok THEN p ELSE q

\* Optionally the text read by q, which started from p.
Optional(p, q) == IF q.ok THEN q ELSE p

\* A backtick-wrapped identifier.
Quoted(p) == Lit(Ident(Lit(p, <<Backtick>>)), <<Backtick>>)

\* One or more of "<identifier> = ?" separated by sep.
RECURSIVE Assignments(_, _)
Assignments(p, sep) ==
    LET one == Lit(Ident(p), SqlEqualsParam)
        more == Lit(one, sep)
    IN  IF more.ok /\ Ident(more).ok THEN Assignments(more, sep) ELSE one

\* One or more identifiers separated by ", ".
RECURSIVE Idents(_)
Idents(p) ==
    LET one == Ident(p)
        more == Lit(one, SqlCommaSpace)
    IN  IF more.ok THEN Idents(more) ELSE one

\* One or more "?" separated by ", ".
RECURSIVE Placeholders(_)
Placeholders(p) ==
    LET one == Lit(p, <<"?">>)
        more == Lit(one, SqlCommaSpace)
    IN  IF more.ok THEN Placeholders(more) ELSE one

Finished(p) == p.ok /\ p.rest = <<>>

\* SELECT * FROM `I` [ WHERE I = ?( AND I = ?)*][ ORDER BY I ASC|DESC]
\* [ LIMIT ?[ OFFSET ?]]
SafeSelect(q) ==
    LET from == Quoted(Lit(Reading(q), SqlSelectFrom))
        where == Optional(from, Assignments(Lit(from, SqlWhere), SqlAnd))
        by == Lit(Ident(Lit(where, SqlOrderBy)), <<" ">>)
        order == Optional(where, Either(Lit(by, SqlDesc), Lit(by, SqlAsc)))
        limit == Lit(order, SqlLimit)
        page == Optional(order, Optional(limit, Lit(limit, SqlOffset)))
    IN  Finished(page)

\* INSERT INTO `I` (I, ...) VALUES (?, ...)
SafeInsert(q) ==
    LET into == Quoted(Lit(Reading(q), SqlInsertInto))
        columns == Idents(Lit(into, <<" ", "(">>))
        values == Placeholders(Lit(columns, SqlValues))
    IN  Finished(Lit(values, <<")">>))

\* UPDATE `I` SET I = ?, ... WHERE id = ?
SafeUpdate(q) ==
    LET table == Quoted(Lit(Reading(q), SqlUpdate))
        set == Assignments(Lit(table, SqlSet), SqlCommaSpace)
    IN  Finished(Lit(set, SqlWhereId))

\* DELETE FROM `I` WHERE id = ?
SafeDelete(q) ==
    Finished(Lit(Quoted(Lit(Reading(q), SqlDeleteFrom)), SqlWhereId))

SafeSql(method, q) ==
    IF method = "GET" THEN SafeSelect(q)
    ELSE IF method = "POST" THEN SafeInsert(q)
    ELSE IF method \in UpdateMethods THEN SafeUpdate(q)
    ELSE method = "DELETE" /\ SafeDelete(q)

\* C7: every SQL text that handleGet, handlePost, handleUpdate or
\* handleDelete hands to the database is fixed text around identifiers:
\* the table name a backtick-wrapped run of [A-Za-z0-9_] that is not empty
\* and does not start with a digit, every filter, insert, update and sort
\* column such a run, and nothing else of the request in the text (the
\* values are in the bound parameters only).
C7_IdentifiersSanitized ==
    \A i \in 1..Len(dbCalls) : SafeSql(request.method, dbCalls[i].query)

HasDisallowed(s) == \E i \in 1..Len(s) : ~IdentifierChar(s[i])

\* A GET whose table name, filter key and sort column all carried
\* characters that were stripped reached the database.
C7_Witness ==
    /\ pc = "responded"
    /\ response.status = 200
    /\ request.method = "GET"
    /\ Len(dbCalls) = 1
    /\ HasDisallowed(request.pathParts[2])
    /\ \E i \in 1..Len(request.searchParams) :
           /\ request.searchParams[i][1] \notin ReservedKeys
           /\ HasDisallowed(request.searchParams[i][1])
    /\ \E i \in 1..Len(request.searchParams) :
           /\ request.searchParams[i][1] = KeySortBy
           /\ HasDisallowed(request.searchParams[i][2])

\* The columns of the SET list of an UPDATE text: what stands between
\* " SET " and the closing " WHERE id = ?", cut at ", ", each without its
\* " = ?".
RECURSIVE SetColumns(_)
SetColumns(p) ==
    LET column == SubSeq(p.rest, 1, IdentLen(p.rest))
        one == Lit(Ident(p), SqlEqualsParam)
        more == Lit(one, SqlCommaSpace)
    IN  IF ~one.ok THEN {}
        ELSE IF more.ok THEN {column} \cup SetColumns(more)
        ELSE {column}

AssignedColumns(q) == SetColumns(Lit(Quoted(Lit(Reading(q), SqlUpdate)), SqlSet))

\* C10: handleUpdate never hands the database an UPDATE statement whose SET
\* list assigns the column id.
C10_IdNeverAssigned ==
    request.method \in UpdateMethods =>
        \A i \in 1..Len(dbCalls) : KeyId \notin AssignedColumns(dbCalls[i].query)

-----------------------------------------------------------------------------
(* Claims about the request pipeline (Spec) *)

\* The rate limiter let the request in hand through: it ran, and the
\* client had no entry, or an expired one, or fewer than MAX_REQUESTS
\* requests counted.
LimiterAdmitted ==
    /\ rl.seen
    /\ \/ rl.before = NoEntry
       \/ rl.at > rl.before.resetTime
       \/ rl.before.count < MAX_REQUESTS

\* The request in hand carries the secret, bare or after "Bearer ".
CarriesSecret ==
    /\ request.authorization.t = "string"
    /\ \/ request.authorization.s = secret
       \/ request.authorization.s = BearerPrefix \o secret

\* C3: a database call is made for a request only if the rate limiter
\* admitted it and the auth gate ran and its Authorization header carries
\* the secret; a request answered 429 or 401 made no database call, on every
\* route and for every verb.
C3_NoDbWithoutGates ==
    /\ (pc = "database" \/ dbCalls # <<>>) =>
           LimiterAdmitted /\ authResp.seen /\ CarriesSecret
    /\ (pc = "responded" /\ response.status \in {401, 429}) => dbCalls = <<>>

\* The hundredth request of a window, carrying the secret, reached the
\* database through /query.
C3_Witness ==
    /\ pc = "responded"
    /\ Len(dbCalls) = 1
    /\ response.status = 200
    /\ request.pathParts = <<QueryPath>>
    /\ rl.before.count = MAX_REQUESTS - 1

-----------------------------------------------------------------------------
(* Claims about handleUpdate, handlePost, handleDelete, handleRest (SpecRest) *)

\* The request in hand is an update of /rest/{table}/{id} whose table name
\* sanitizes to an identifier.
UpdateOfValidTable ==
    /\ pc = "responded"
    /\ request.method \in UpdateMethods
    /\ Len(request.pathParts) >= 3
    /\ ValidIdentifier(WithoutDisallowed(request.pathParts[2]))

BodyHasKey(key) ==
    /\ request.data.kind = "object"
    /\ \E i \in 1..Len(request.data.keys) : request.data.keys[i] = key

\* C11: a PUT or PATCH to /rest/{table}/{id} with a valid table name and an
\* object body that has the key id is answered 400 'Cannot update ID field'
\* whatever its other keys are, and no database call is made.
C11_UpdateWithIdForbidden ==
    (UpdateOfValidTable /\ BodyHasKey(KeyId)) =>
        /\ response.status = 400
        /\ response.body = [error |-> "Cannot update ID field"]
        /\ dbCalls = <<>>

\* An update whose body has id after a key that the sanitizer rejects.
C11_Witness ==
    /\ UpdateOfValidTable
    /\ Len(request.data.keys) = 2
    /\ request.data.keys[2] = KeyId
    /\ ~ValidIdentifier(WithoutDisallowed(request.data.keys[1]))
    /\ response.status = 400

-----------------------------------------------------------------------------
(* Claims about the /query handler (SpecQuery) *)

\* The request in hand was answered by the /query handler.
QueryAnswered ==
    pc = "responded" /\ request.method = "POST" /\ request.pathParts = <<QueryPath>>

\* What the body of the request in hand has under "query" and "params"
\* (undefined when it has none, or is not an object).
QueryOf == Lookup(request.data, KeyQuery)
ParamsOf == Lookup(request.data, KeyParams)

\* C12: every /query request whose query text matches DROP TABLE, DROP
\* DATABASE, TRUNCATE or ALTER TABLE in any case is answered 403 before any
\* database call, also when the text holds several statements.
C12_DenylistWins ==
    (QueryAnswered /\ QueryOf.t = "string" /\ Dangerous(QueryOf.s)) =>
        response.status = 403 /\ dbCalls = <<>>

\* The number of parts of s between semicolons that hold a character other
\* than white space; open tells whether the part being read holds one.
RECURSIVE SegmentCount(_, _)
SegmentCount(s, open) ==
    IF s = <<>> THEN (IF open THEN 1 ELSE 0)
    ELSE IF Head(s) = ";"
    THEN (IF open THEN 1 ELSE 0) + SegmentCount(Tail(s), FALSE)
    ELSE SegmentCount(Tail(s), open \/ Head(s) \notin Whitespace)

MultiStatementRejected ==
    /\ response.status = 400
    /\ response.body = [error |-> "Multiple SQL statements are not allowed"]

\* C13: a /query request is answered 400 'Multiple SQL statements are not
\* allowed' exactly when its query text, split at ';', has more than one
\* non-blank part; one statement followed by semicolons and blanks only is
\* not rejected by this check.
C13_MultiStatementCheck ==
    (QueryAnswered /\ QueryOf.t = "string") =>
        (MultiStatementRejected <=> SegmentCount(QueryOf.s, FALSE) > 1)

\* One statement followed by a semicolon and a blank reached the database.
C13_Witness ==
    /\ QueryAnswered
    /\ QueryOf.t = "string"
    /\ Len(QueryOf.s) >= 3
    /\ QueryOf.s[Len(QueryOf.s)] = " "
    /\ QueryOf.s[Len(QueryOf.s) - 1] = ";"
    /\ SegmentCount(QueryOf.s, FALSE) = 1
    /\ Len(dbCalls) = 1

\* C14: every /query request whose body has no query, a query that is not a
\* string, or params that are there and not an array is answered 400 without
\* a database call, whatever the body and the query text are.
C14_PayloadValidation ==
    (QueryAnswered /\ (QueryOf.t # "string"
                         \/ ParamsOf.t \notin {"undefined", "array"})) =>
        response.status = 400 /\ dbCalls = <<>>

-----------------------------------------------------------------------------
(* Claims about errors of the database (Spec) *)

\* The database call made for the request in hand threw.
DatabaseFailed ==
    pc = "responded" /\ Len(dbCalls) = 1 /\ ~dbCalls[1].outcome.ok

\* C15: when the database fails on /query the response is 500 with the
\* fixed error text and nothing of the database's message; when it fails
\* under /rest (GET, POST, PUT, PATCH, DELETE) the response is 400 and its
\* details field is the database's message.
C15_ErrorDisclosure ==
    DatabaseFailed =>
        IF request.pathParts = <<QueryPath>>
        THEN /\ response.status = 500
             /\ response.body = [error |-> "Internal server error processing query"]
        ELSE /\ response.status = 400
             /\ "details" \in DOMAIN response.body
             /\ response.body.details = dbCalls[1].outcome.message

\* The database failed on /query with a message other than the first one.
C15_Witness ==
    /\ DatabaseFailed
    /\ request.pathParts = <<QueryPath>>
    /\ dbCalls[1].outcome.message # DbThrew.message
    /\ response.status = 500

-----------------------------------------------------------------------------
(* Claims about the statements of handleGet (SpecRest) *)

\* A GET of the request in hand reached the database.
ReadEmitted ==
    pc = "responded" /\ request.method = "GET" /\ Len(dbCalls) = 1

\* The value of the first query-string entry with this key: <<value>>, or
\* <<>> when there is none.
RECURSIVE FirstValue(_, _)
FirstValue(entries, key) ==
    IF entries = <<>> THEN <<>>
    ELSE IF Head(entries)[1] = key THEN <<Head(entries)[2]>>
    ELSE FirstValue(Tail(entries), key)

\* The first entry with this key has a value that is not empty.
Given(key) ==
    /\ FirstValue(request.searchParams, key) # <<>>
    /\ FirstValue(request.searchParams, key)[1] # <<>>

ValueOf(key) == FirstValue(request.searchParams, key)[1]

\* The entries that are filters, in query-string order.
RECURSIVE Filters(_)
Filters(entries) ==
    IF entries = <<>> THEN <<>>
    ELSE IF Head(entries)[1] \in {KeySortBy, KeyOrder, KeyLimit, KeyOffset}
    THEN Filters(Tail(entries))
    ELSE <<Head(entries)>> \o Filters(Tail(entries))

HasPathId == Len(request.pathParts) >= 3

\* The conditions the claim lists: 'id = ?' first, then one per filter.
ExpectedConditions ==
    (IF HasPathId THEN <<<<"i", "d", " ", "=", " ", "?">>>> ELSE <<>>)
    \o [i \in 1..Len(Filters(request.searchParams)) |->
           WithoutDisallowed(Filters(request.searchParams)[i][1]) \o <<" ", "=", " ", "?">>]

RECURSIVE JoinedWithAnd(_)
JoinedWithAnd(conds) ==
    IF Len(conds) = 1 THEN conds[1]
    ELSE conds[1] \o <<" ", "A", "N", "D", " ">> \o JoinedWithAnd(Tail(conds))

\* Upper case and lower case letters are the same letter.
SameLetter(a, b) ==
    \/ a = b
    \/ \E j \in 1..26 : {a, b} = {LowerLetters[j], UpperLetters[j]}

SaysDesc(word) ==
    /\ Len(word) = 4
    /\ \A i \in 1..4 : SameLetter(word[i], <<"D", "E", "S", "C">>[i])

\* The text the claim describes for the request in hand.
ExpectedSelect ==
    <<"S", "E", "L", "E", "C", "T", " ", "*", " ", "F", "R", "O", "M", " ">> \o <<Backtick>> \o WithoutDisallowed(request.pathParts[2])
        \o <<Backtick>>
    \o (IF ExpectedConditions # <<>>
        THEN <<" ", "W", "H", "E", "R", "E", " ">> \o JoinedWithAnd(ExpectedConditions) ELSE <<>>)
    \o (IF Given(KeySortBy)
        THEN <<" ", "O", "R", "D", "E", "R", " ", "B", "Y", " ">> \o WithoutDisallowed(ValueOf(KeySortBy))
                 \o (IF FirstValue(request.searchParams, KeyOrder) # <<>>
                        /\ SaysDesc(ValueOf(KeyOrder))
                     THEN <<" ", "D", "E", "S", "C">> ELSE <<" ", "A", "S", "C">>)
        ELSE <<>>)
    \o (IF Given(KeyLimit) THEN <<" ", "L", "I", "M", "I", "T", " ", "?">> ELSE <<>>)
    \o (IF Given(KeyLimit) /\ Given(KeyOffset) THEN <<" ", "O", "F", "F", "S", "E", "T", " ", "?">> ELSE <<>>)

\* The parameters the claim lists: the id, the filter values, the limit and
\* the offset.
ExpectedSelectParams ==
    (IF HasPathId THEN <<Str(request.pathParts[3])>> ELSE <<>>)
    \o [i \in 1..Len(Filters(request.searchParams)) |->
           Str(Filters(request.searchParams)[i][2])]
    \o (IF Given(KeyLimit) THEN <<ParseInt(ValueOf(KeyLimit))>> ELSE <<>>)
    \o (IF Given(KeyLimit) /\ Given(KeyOffset)
        THEN <<ParseInt(ValueOf(KeyOffset))>> ELSE <<>>)

\* C16 (amended): the SQL a GET emits is 'SELECT * FROM `<table>`', then
\* ' WHERE ' and the conditions joined with ' AND ' ('id = ?' first when the
\* path has an id, then '<sanitized key> = ?' per filter entry in order),
\* then ' ORDER BY <sanitized sort_by> DESC|ASC' when sort_by has a value
\* that is not empty (DESC when order says DESC in any case), then
\* ' LIMIT ?' when limit has a value that is not empty, then ' OFFSET ?'
\* when limit and offset both have one; the parameters are the id, the
\* filter values, the limit and the offset in that order.
C16_ReadConstruction ==
    ReadEmitted =>
        /\ dbCalls[1].query = ExpectedSelect
        /\ dbCalls[1].params = ExpectedSelectParams

\* A GET with a path id, a filter whose key had a character stripped and a
\* limit reached the database.
C16_Witness ==
    /\ ReadEmitted
    /\ HasPathId
    /\ Len(Filters(request.searchParams)) = 1
    /\ HasDisallowed(Filters(request.searchParams)[1][1])
    /\ Given(KeyLimit)

\* C16 as stated: ' LIMIT ?' is there whenever the query string has a limit
\* entry.
C16_Original ==
    ReadEmitted =>
        /\ dbCalls[1].query = ExpectedSelect
        /\ dbCalls[1].params = ExpectedSelectParams
        /\ FirstValue(request.searchParams, KeyLimit) # <<>> =>
               \E i \in 1..Len(dbCalls[1].query) :
                   StartsWith(Substring(dbCalls[1].query, i - 1), <<" ", "L", "I", "M", "I", "T", " ", "?">>)

-----------------------------------------------------------------------------
(* Claims about the statements of handlePost and handleDelete (SpecRest) *)

\* Every key of the body of the request in hand sanitizes to an identifier.
AllKeysSanitize ==
    \A i \in 1..Len(request.data.keys) :
        ValidIdentifier(WithoutDisallowed(request.data.keys[i]))

\* The request in hand is a POST to a table whose name sanitizes, with a
\* body that is an object with at least one key, all of which sanitize.
CreateOfValidBody ==
    /\ pc = "responded"
    /\ request.method = "POST"
    /\ Len(request.pathParts) >= 2
    /\ ValidIdentifier(WithoutDisallowed(request.pathParts[2]))
    /\ request.data.kind = "object"
    /\ Len(request.data.keys) > 0
    /\ AllKeysSanitize

RECURSIVE JoinedWithComma(_)
JoinedWithComma(parts) ==
    IF Len(parts) = 1 THEN parts[1]
    ELSE parts[1] \o <<",", " ">> \o JoinedWithComma(Tail(parts))

ExpectedInsert ==
    <<"I", "N", "S", "E", "R", "T", " ", "I", "N", "T", "O", " ">> \o <<Backtick>> \o WithoutDisallowed(request.pathParts[2])
        \o <<Backtick>> \o <<" ", "(">>
    \o JoinedWithComma([i \in 1..Len(request.data.keys) |->
                           WithoutDisallowed(request.data.keys[i])])
    \o <<")", " ", "V", "A", "L", "U", "E", "S", " ", "(">>
    \o JoinedWithComma([i \in 1..Len(request.data.keys) |-> <<"?">>])
    \o <<")">>

\* C17: for every POST body that is a non-empty object whose keys all
\* sanitize, the statement is 'INSERT INTO `<table>` (<sanitized keys>)
\* VALUES (<one ? per key>)' and the i-th bound parameter is the body's
\* value for its i-th key, also for keys with characters the sanitizer
\* strips; on success the response is 201 with the body echoed.
C17_CreateBindsInOrder ==
    CreateOfValidBody =>
        /\ Len(dbCalls) = 1
        /\ dbCalls[1].query = ExpectedInsert
        /\ dbCalls[1].params = request.data.vals
        /\ dbCalls[1].outcome.ok =>
               response.status = 201 /\ response.body.data = request.data

\* The request in hand, of one of these methods, reached the database and
\* the database ran the statement.
RanFor(methods) ==
    /\ pc = "responded"
    /\ request.method \in methods
    /\ Len(dbCalls) = 1
    /\ dbCalls[1].outcome.ok

\* C18: a DELETE that reaches the database hands it 'DELETE FROM `<table>`
\* WHERE id = ?' bound to the path id; the response is 404 when the database
\* reports no affected row and 200 with the count otherwise; an update with
\* no affected row is still answered 200, with changes = 0.
C18_DeleteReportsMissing ==
    /\ (pc = "responded" /\ request.method = "DELETE" /\ Len(dbCalls) = 1) =>
           /\ dbCalls[1].query =
                  <<"D", "E", "L", "E", "T", "E", " ", "F", "R", "O", "M", " ">> \o <<Backtick>>
                      \o WithoutDisallowed(request.pathParts[2]) \o <<Backtick>>
                      \o <<" ", "W", "H", "E", "R", "E", " ", "i", "d", " ", "=", " ", "?">>
           /\ dbCalls[1].params = <<Str(request.pathParts[3])>>
    /\ RanFor({"DELETE"}) =>
           IF dbCalls[1].outcome.changes = 0
           THEN response.status = 404
           ELSE /\ response.status = 200
                /\ response.body.meta.changes = dbCalls[1].outcome.changes
    /\ (RanFor({"PUT", "PATCH"}) /\ dbCalls[1].outcome.changes = 0) =>
           response.status = 200 /\ response.body.meta.changes = 0

\* A DELETE ran and no row was affected.
C18_Witness ==
    RanFor({"DELETE"}) /\ dbCalls[1].outcome.changes = 0 /\ response.status = 404

-----------------------------------------------------------------------------
(* Claims about handleRest (SpecRest) *)

\* The response carries this error text and no database call was made.
Refused(status, error) ==
    /\ response.status = status
    /\ "error" \in DOMAIN response.body
    /\ response.body.error = error
    /\ dbCalls = <<>>

\* The answer came from the handler that writes statements starting with
\* this text and reports these errors of its own.
AnsweredBy(statementStart, errors) ==
    IF dbCalls # <<>>
    THEN StartsWith(dbCalls[1].query, statementStart)
    ELSE /\ response.status = 400
         /\ "error" \in DOMAIN response.body
         /\ response.body.error \in errors

ReadErrors == {"Failed to fetch records"}
CreateErrors == {"Failed to create record", "No data provided",
                 "Invalid data format: Expected object"}
UpdateErrors == {"Failed to update record", "No data provided for update",
                 "Cannot update ID field", "Invalid data format: Expected object"}
DeleteErrors == {"Failed to delete record"}

\* C19: under /rest a path of fewer than two segments is answered 400
\* whatever the verb; otherwise GET goes to Read, POST to Create, PUT and
\* PATCH to Update and DELETE to Delete, PUT, PATCH and DELETE without an id
\* segment being answered 400 without a database call, and every other verb
\* 405.
C19_VerbDispatch ==
    pc = "responded" =>
        IF Len(request.pathParts) < 2
        THEN Refused(400, "Invalid path. Expected format: /rest/{tableName}/{id?}")
        ELSE IF request.method = "GET" THEN AnsweredBy(<<"S", "E", "L", "E", "C", "T", " ">>, ReadErrors)
        ELSE IF request.method = "POST" THEN AnsweredBy(<<"I", "N", "S", "E", "R", "T", " ">>, CreateErrors)
        ELSE IF request.method \in {"PUT", "PATCH"}
        THEN IF Len(request.pathParts) < 3
             THEN Refused(400, "ID is required for updates")
             ELSE AnsweredBy(<<"U", "P", "D", "A", "T", "E", " ">>, UpdateErrors)
        ELSE IF request.method = "DELETE"
        THEN IF Len(request.pathParts) < 3
             THEN Refused(400, "ID is required for deletion")
             ELSE AnsweredBy(<<"D", "E", "L", "E", "T", "E", " ">>, DeleteErrors)
        ELSE Refused(405, "Method not allowed")

\* A PUT with an id reached the database with an UPDATE.
C19_Witness ==
    /\ pc = "responded"
    /\ request.method = "PUT"
    /\ Len(request.pathParts) = 3
    /\ Len(dbCalls) = 1
    /\ StartsWith(dbCalls[1].query, <<"U", "P", "D", "A", "T", "E", " ">>)

-----------------------------------------------------------------------------
(* Claims about validation in the handlers (SpecHandlers) *)

\* The error texts with which the handlers report a request they do not
\* accept.
ValidationErrors ==
    {"Invalid path. Expected format: /rest/{tableName}/{id?}",
     "Invalid data format: Expected object",
     "No data provided",
     "No data provided for update",
     "Cannot update ID field",
     "ID is required for updates",
     "ID is required for deletion",
     "Method not allowed",
     "Valid query string is required",
     "Multiple SQL statements are not allowed",
     "Query contains potentially dangerous operations",
     "Parameters must be an array"}

\* The messages with which sanitizeIdentifier rejects a table name, a
\* filter column, a sort column or a body key.
IdentifierErrors ==
    {"Invalid identifier",
     "Invalid identifier: must start with letter or underscore"}

ReportsValidationError ==
    /\ pc = "responded"
    /\ "error" \in DOMAIN response.body
    /\ \/ response.body.error \in ValidationErrors
       \/ /\ "details" \in DOMAIN response.body
          /\ response.body.details \in IdentifierErrors

\* C20: whenever the response reports a validation error (invalid
\* identifier, invalid path, invalid, empty or array payload, forbidden id
\* field, missing id, method not allowed, multiple statements, dangerous
\* operation, params that are not an array), no database call was made for
\* the request.
C20_ValidationBeforeDatabase ==
    ReportsValidationError => dbCalls = <<>>

\* A POST whose second body key the sanitizer rejects, after a first key it
\* accepts.
C20_Witness ==
    /\ ReportsValidationError
    /\ request.method = "POST"
    /\ request.data.kind = "object"
    /\ Len(request.data.keys) = 2
    /\ ValidIdentifier(WithoutDisallowed(request.data.keys[1]))
    /\ ~ValidIdentifier(WithoutDisallowed(request.data.keys[2]))
    /\ response.body.error = "Failed to create record"

-----------------------------------------------------------------------------
(* Claims about requests in flight together (SpecFlights) *)

\* The requests in flight that the limiter has let through and that have not
\* been answered yet.
Suspended == {i \in Flights : inFlight[i].pc \in {"gate", "body", "database"}}

\* Those of client k let through in the window that k's entry describes.
SuspendedInWindow(k) ==
    {i \in Suspended :
        /\ ClientIP(inFlight[i].cf, inFlight[i].xff) = k
        /\ inFlight[i].at >= requestCounts[k].resetTime - RATE_LIMIT_WINDOW
        /\ inFlight[i].at <= requestCounts[k].resetTime}

\* C21: under every interleaving of the requests in flight, the stored count
\* of a client is the number of its requests let through in the window of
\* its entry, and no request that was let through is missing from it: the
\* requests still in flight from that window are at most the count.
C21_AtomicCounting ==
    /\ DOMAIN requestCounts = DOMAIN admitted
    /\ \A k \in DOMAIN requestCounts :
        /\ requestCounts[k].count = admitted[k].n
        /\ requestCounts[k].resetTime = admitted[k].until
        /\ Cardinality(SuspendedInWindow(k)) <= requestCounts[k].count
    /\ \A i \in Suspended :
        ClientIP(inFlight[i].cf, inFlight[i].xff) \in DOMAIN requestCounts

\* Two requests of one client are suspended together, one at its database
\* call and one at its body, and both are counted.
C21_Witness ==
    /\ inFlight[1].pc = "database"
    /\ inFlight[2].pc = "body"
    /\ \E k \in DOMAIN requestCounts :
        /\ SuspendedInWindow(k) = {1, 2}
        /\ requestCounts[k].count = 2

-----------------------------------------------------------------------------
(* Claims about failures (Spec) *)

\* env.SECRET.get() rejected for the request in hand: it was answered
\* without reaching the rate limiter, and it is no preflight.
SecretFailed == pc = "responded" /\ request.method # "OPTIONS" /\ ~rl.seen

\* The handler ran for the request in hand: the auth gate let it through.
HandlerRan == pc = "responded" /\ authResp.seen /\ authResp.resp.next

\* The body of the request in hand could not be parsed by its handler.
BodyUnreadable ==
    HandlerRan /\ request.method \in BodyMethods /\ request.data = NoBody

\* The handler refused the request in hand before any database call.
ValidationFailed == HandlerRan /\ dbCalls = <<>>

\* A failure that the worker's own code answers: of the limiter, of the auth
\* gate, of the handler's validation, of the body parse, of the database.
HandledFailure ==
    \/ pc = "responded" /\ rl.seen /\ ~rl.resp.next
    \/ pc = "responded" /\ authResp.seen /\ ~authResp.resp.next
    \/ ValidationFailed
    \/ BodyUnreadable
    \/ DatabaseFailed

\* {error, details?} under a 4xx or 5xx status.
StructuredError(resp) ==
    /\ resp.status \in 400..599
    /\ "error" \in DOMAIN resp.body
    /\ DOMAIN resp.body \subseteq {"error", "details"}

\* Every failure but the secret store's gets a structured JSON error.
HandledFailuresStructured == HandledFailure => StructuredError(response)

\* C22: every failure of a collaborator (database call, body parse, secret
\* fetch) or of a validation step is answered with a JSON body {error,
\* details?} under a 4xx or 5xx status.
C22_StructuredErrors ==
    (HandledFailure \/ SecretFailed) => StructuredError(response)

-----------------------------------------------------------------------------
(* Claims about the client identifier (SpecClients) *)

\* A header that is there and not empty.
Carried(h) == h.t = "string" /\ Len(h.s) > 0

\* The key the rule gives: cf-connecting-ip, else x-forwarded-for, else the
\* fallback.
ExpectedKey(cf, xff) ==
    IF Carried(cf) THEN cf.s
    ELSE IF Carried(xff) THEN xff.s
    ELSE <<"u", "n", "k", "n", "o", "w", "n">>

\* The last request carried neither address header.
Headerless == rl.seen /\ ~Carried(rl.cf) /\ ~Carried(rl.xff)

\* C23: the counter of a request is keyed by cf-connecting-ip if it is there
\* and not empty, else by x-forwarded-for if it is there and not empty, else
\* by 'unknown'.  So the requests without either header share one budget:
\* no more than MAX_REQUESTS of them are let through in a window, and the
\* one that comes after them is answered 429.
C23_KeyDerivation ==
    rl.seen =>
        LET key == ExpectedKey(rl.cf, rl.xff)
        IN  /\ rl.clientIP = key
            /\ key \in DOMAIN requestCounts
            /\ \A k \in DOMAIN requestCounts \ {key} :
                   k \in DOMAIN admitted /\ requestCounts[k].count = admitted[k].n
            /\ \A k \in DOMAIN admitted : admitted[k].n <= MAX_REQUESTS
            /\ (Headerless /\ admitted[<<"u", "n", "k", "n", "o", "w", "n">>].n = MAX_REQUESTS
                           /\ rl.before.count = MAX_REQUESTS
                           /\ rl.at <= admitted[<<"u", "n", "k", "n", "o", "w", "n">>].until) =>
                   rl.resp.status = 429

\* A request without address headers is answered 429 after MAX_REQUESTS
\* such requests were let through.
C23_Witness ==
    /\ Headerless
    /\ rl.cf = Undefined /\ rl.xff = Undefined
    /\ rl.resp.status = 429
    /\ admitted[<<"u", "n", "k", "n", "o", "w", "n">>].n = MAX_REQUESTS

\* Both headers are carried, and cf-connecting-ip is the key.
BothHeadersCarried ==
    rl.seen /\ Carried(rl.cf) /\ Carried(rl.xff) /\ rl.clientIP = rl.cf.s

-----------------------------------------------------------------------------
(* Claims about what a request leaves in the map (SpecRate) *)

\* C24: a request that is answered 429 found an entry with count >=
\* MAX_REQUESTS whose resetTime had not passed, and it leaves the whole map
\* as it was: the client's count and resetTime, and every other entry.
C24_RejectionChangesNothing ==
    [][(rl'.seen /\ rl'.resp.status = 429) =>
          /\ rl'.clientIP \in DOMAIN requestCounts
          /\ rl'.before = requestCounts[rl'.clientIP]
          /\ rl'.before.count >= MAX_REQUESTS
          /\ rl'.at <= rl'.before.resetTime
          /\ requestCounts' = requestCounts]_vars

\* A client is refused late in its window, after the clock has moved, while
\* another client has an entry too.
C24_Witness ==
    /\ rl.seen
    /\ rl.resp.status = 429
    /\ rl.at = RATE_LIMIT_WINDOW
    /\ Cardinality(DOMAIN requestCounts) = 2
    /\ requestCounts[rl.clientIP] =
           [count |-> MAX_REQUESTS, resetTime |-> RATE_LIMIT_WINDOW]

\* C27: a request creates or changes at most the entry of its own client
\* identifier: every other entry keeps its count and resetTime, no entry is
\* removed, and the only key that may be new is the request's.
C27_ClientIsolation ==
    [][/\ DOMAIN requestCounts \subseteq DOMAIN requestCounts'
       /\ DOMAIN requestCounts' \subseteq DOMAIN requestCounts \cup {rl'.clientIP}
       /\ \A k \in DOMAIN requestCounts \ {rl'.clientIP} :
              requestCounts'[k] = requestCounts[k]]_vars

\* A client starts a new window after its first one ran out, and the entry
\* of the other client is still there.
C27_Witness ==
    /\ rl.seen
    /\ rl.before.count > 0
    /\ rl.at > rl.before.resetTime
    /\ requestCounts[rl.clientIP].count = 1
    /\ \E k \in DOMAIN requestCounts :
           k # rl.clientIP /\ requestCounts[k].resetTime < rl.at

-----------------------------------------------------------------------------
(* Claims about bursts across a window boundary (SpecBurst) *)

\* The sum of tally over the readings in S.
RECURSIVE Total(_, _)
Total(tally, S) ==
    IF S = {} THEN 0
    ELSE LET t == CHOOSE x \in S : TRUE
         IN  tally[t] + Total(tally, S \ {t})

\* The requests let through in the interval of length RATE_LIMIT_WINDOW that
\* starts at s, both ends included.
AdmittedWithin(s) ==
    Total(admittedAt, {t \in BurstClock : s <= t /\ t <= s + RATE_LIMIT_WINDOW})

\* C25: in no interval of 60 seconds are more than twice MAX_REQUESTS
\* requests of a client let through.
C25_BoundedOvershoot ==
    \A s \in BurstClock : AdmittedWithin(s) <= 2 * MAX_REQUESTS

\* Within two milliseconds across a window boundary the client gets
\* through with one request less than twice the limit.
C25_Witness ==
    /\ admittedAt[RATE_LIMIT_WINDOW] = MAX_REQUESTS - 1
    /\ admittedAt[RATE_LIMIT_WINDOW + 1] = MAX_REQUESTS
    /\ AdmittedWithin(RATE_LIMIT_WINDOW) = 2 * MAX_REQUESTS - 1

-----------------------------------------------------------------------------
(* Claims about pagination (SpecRest) *)

\* text ends with tail.
EndsWith(text, tail) ==
    /\ Len(text) >= Len(tail)
    /\ SubSeq(text, Len(text) - Len(tail) + 1, Len(text)) = tail

\* A JavaScript number that is an integer: NaN is none.
IsInteger(v) == v.t = "number" /\ v.n \in Int

\* The parameters bound to ' LIMIT ?' and ' OFFSET ?' in the read in hand.
PaginationParams ==
    LET q == dbCalls[1].query
        p == dbCalls[1].params
    IN  IF EndsWith(q, <<" ", "L", "I", "M", "I", "T", " ", "?", " ", "O", "F", "F", "S", "E", "T", " ", "?">>) THEN SubSeq(p, Len(p) - 1, Len(p))
        ELSE IF EndsWith(q, <<" ", "L", "I", "M", "I", "T", " ", "?">>) THEN SubSeq(p, Len(p), Len(p))
        ELSE <<>>

\* The limit and offset values of the request start with a digit.
StartsWithDigit(key) ==
    Given(key) => ValueOf(key)[1] \in {"0", "1", "2", "3", "4", "5", "6", "7", "8", "9"}

\* When limit and offset start with a digit, what is bound is an integer.
DigitPaginationIntegers ==
    (ReadEmitted /\ StartsWithDigit(KeyLimit) /\ StartsWithDigit(KeyOffset)) =>
        \A i \in 1..Len(PaginationParams) : IsInteger(PaginationParams[i])

\* C26: whenever the SQL of a GET has ' LIMIT ?' (and ' OFFSET ?'), the
\* parameter bound to it is an integer, whatever the limit and offset
\* entries of the query string are.
C26_PaginationIntegers ==
    ReadEmitted =>
        \A i \in 1..Len(PaginationParams) : IsInteger(PaginationParams[i])

-----------------------------------------------------------------------------
(* Claims about the order of the limiter and the auth gate (SpecGate) *)

\* The client's entry, once it has one.
ClientEntry == requestCounts[FetchClient]

\* The request in hand found the client at its limit.
AtLimit ==
    /\ rl.seen
    /\ rl.before.count >= MAX_REQUESTS
    /\ rl.at <= rl.before.resetTime

\* MAX_REQUESTS requests of the client's open window were answered 401.
WindowSpentOn401 ==
    /\ FetchClient \in DOMAIN requestCounts
    /\ unauthorized.n = MAX_REQUESTS
    /\ unauthorized.until = ClientEntry.resetTime
    /\ now <= ClientEntry.resetTime

\* C28: a request answered 401 was counted by the limiter first (its entry
\* was created or incremented); after MAX_REQUESTS requests of a window
\* were answered 401, a request that carries the secret is answered 429; and
\* a client at its limit gets 429, not 401, whatever its Authorization
\* header is.
C28_LimiterBeforeAuth ==
    /\ (pc = "responded" /\ response.status = 401) =>
           /\ rl.seen /\ rl.resp.next
           /\ FetchClient \in DOMAIN requestCounts
           /\ ClientEntry.count =
                  IF rl.before = NoEntry \/ rl.at > rl.before.resetTime
                  THEN 1 ELSE rl.before.count + 1
    /\ (pc = "responded" /\ WindowSpentOn401 /\ CarriesSecret) =>
           response.status = 429
    /\ (pc = "responded" /\ AtLimit) =>
           response.status = 429 /\ ~authResp.seen

\* After a window spent on 401 answers, a request with the secret is
\* answered 429.
C28_Witness ==
    /\ pc = "responded"
    /\ WindowSpentOn401
    /\ CarriesSecret
    /\ response.status = 429

\* A request without the secret is answered 429 at the limit.
RefusedBeforeAuth ==
    pc = "responded" /\ AtLimit /\ ~CarriesSecret /\ response.status = 429

=============================================================================
